---- MODULE Spec2Model ----
(***************************************************************************)
(* Model of the host-provisioning scripts of CommonScripts                 *)
(* (Linux/debian_init.py, Linux/install_debian.py, Linux/install_alpine.py)*)
(*                                                                         *)
(* File contents are sequences of lines as produced by str.split('\n'):    *)
(* a content string is a non-empty sequence of lines, the last element     *)
(* being the text after the final newline.  A line is a sequence of        *)
(* tokens; the tokens stand for the substrings the code tests with `in`,   *)
(* startswith, strip and replace.                                          *)
(***************************************************************************)
EXTENDS Integers, Sequences, FiniteSets, TLC

VARIABLES
    \* ---- increase_swap ----
    variant,        \* which script runs: "debian_init" | "install_debian" | "install_alpine"
    pc,             \* position inside _handle_swap_command / increase_swap
    swap_size,      \* the size token handed to increase_swap
    existing_file,  \* local of increase_swap ("undef" while unbound)
    swap_type,      \* local of increase_swap ("undef" while unbound)
    tmp_file,       \* local of increase_swap ("undef" while unbound)
    active,         \* active swap areas, in the order `swapon --show` lists them
    fsize,          \* path -> size in MB of the file at that path (0: no such file)
    fstab,          \* content of /etc/fstab
    result,         \* what the last call returned: "none" | "True" | "False" | "raised"
    calls,          \* number of swap commands started
    issued,         \* mutating commands the current call has executed
    pre,            \* active / fsize / fstab as they were when the current call began
    \* ---- the managed-block rewrite applied to a file content ----
    rw_block,       \* which block is rewritten: "bbr" | "ipv4" | "ipv6"
    rw_content,     \* the content of the file
    rw_prev,        \* the content before the latest application
    rw_first,       \* the content before the first application
    rw_count,       \* number of applications so far
    rw_edits,       \* number of unrelated edits made to the file so far
    \* ---- the hardening operations (config_sshd, ...) ----
    t_variant,      \* which script runs
    t_pc,           \* position inside the running operation
    files,          \* path -> content of the configuration file (<<>>: no such file)
    backups,        \* backup file name <<path, stamp>> -> content
    clock,          \* the host clock, in seconds
    backup_file,    \* local of the operation: name of its backup (<<>> while empty/unbound)
    port,           \* local of config_sshd: the port drawn last
    bound,          \* the TCP ports other processes of the host listen on
    sshd_port,      \* the TCP port the SSH daemon listens on (0: the daemon is down)
    cmd_i,          \* index of the next entry of config_commands
    t_result,       \* what the last operation returned: "none" | "True" | "False"
    t_pre,          \* `files` as it was when the running operation began
    t_log,          \* what the running operation has done so far
    t_runs,         \* number of operations started
    \* ---- a caller of ConfigManager ----
    cm_last,        \* the latest call and its outcome
    cm_path,        \* the path the latest call was about
    cm_ret,         \* backup name returned by / handed to the latest call (<<>>: None)
    cm_snaps,       \* backup name -> content of the file when that backup was taken
    cm_before,      \* files and backups as they were before the latest call
    cm_ops,         \* number of calls and modifications so far
    \* ---- main(): the command loop ----
    m_variant,      \* which script runs
    argv,           \* sys.argv[1:]
    arg_i,          \* index of the argument the for loop takes up next
    m_pc,           \* "loop" | "call" | "loop_end" | "summary" | "returned" | "exited"
    success_count,  \* local of main() of debian_init.py
    total_count,    \* local of main() of debian_init.py
    exit_code,      \* the exit status of the process once it has ended
    m_seen,         \* the indices of the arguments the loop has taken up
    m_failures,     \* the indices of the arguments whose failure was logged
    \* ---- writes through a temporary file (atomic_write, config_shell) ----
    aw_variant,     \* "atomic_write" | "config_shell"
    aw_pc,          \* position inside the running call
    aw_target,      \* content of the target file (<<>>: no such file)
    aw_tmp,         \* content of the temporary file next to it (<<>>: no such file)
    aw_content,     \* the text the call is to write (atomic_write) or append (config_shell)
    aw_ret,         \* what the last call returned: "none" | "True" | "False"
    aw_old,         \* the target as it was when the running call began
    aw_new,         \* the complete content the running call is writing
    aw_reads,       \* what a concurrent reader of the target has seen during the call
    aw_log,         \* what the running call has done so far
    aw_calls,       \* number of calls started
    \* ---- enable_bbr ----
    rt_cc,          \* runtime value of net.ipv4.tcp_congestion_control
    rt_qdisc,       \* runtime value of net.core.default_qdisc
    rt_avail,       \* whether bbr is listed in tcp_available_congestion_control
    bbr_content     \* local `content` of enable_bbr: the text read from sysctl.conf

swapVars == <<variant, pc, swap_size, existing_file, swap_type, tmp_file,
              active, fsize, fstab, result, calls, issued, pre>>

rwVars == <<rw_block, rw_content, rw_prev, rw_first, rw_count, rw_edits>>

txnVars == <<t_variant, t_pc, files, backups, clock, backup_file, port, bound, sshd_port,
             cmd_i, t_result, t_pre, t_log, t_runs>>

cmVars == <<cm_last, cm_path, cm_ret, cm_snaps, cm_before, cm_ops>>

mainVars == <<m_variant, argv, arg_i, m_pc, success_count, total_count, exit_code,
              m_seen, m_failures>>

awVars == <<aw_variant, aw_pc, aw_target, aw_tmp, aw_content, aw_ret, aw_old, aw_new,
            aw_reads, aw_log, aw_calls>>

bbrVars == <<rt_cc, rt_qdisc, rt_avail, bbr_content>>

vars == <<swapVars, rwVars, txnVars, cmVars, mainVars, awVars, bbrVars>>

\* what the swap operations leave alone
NotSwap == <<rwVars, txnVars, cmVars, mainVars, awVars, bbrVars>>

\* what the rewrite applications leave alone
NotRw == <<swapVars, txnVars, cmVars, mainVars, awVars, bbrVars>>

\* what the hardening operations leave alone
NotTxn == <<swapVars, rwVars, cmVars, mainVars, awVars, bbrVars>>

\* what the calls of ConfigManager leave alone, of the other groups and of its own
NotCm == <<swapVars, rwVars, mainVars, awVars, bbrVars>>

\* what the command loop leaves alone
NotMain == <<swapVars, rwVars, txnVars, cmVars, awVars, bbrVars>>

\* what enable_bbr leaves alone, of the other groups and of the hardening group
NotBbr == <<swapVars, rwVars, cmVars, mainVars, awVars>>

BbrFrame == <<t_variant, port, bound, sshd_port, cmd_i>>

\* what the writes through a temporary file leave alone
NotAw == <<swapVars, rwVars, cmVars, mainVars, bbrVars>>

CmFrame == <<t_variant, t_pc, backup_file, port, bound, sshd_port, cmd_i, t_result, t_pre, t_log, t_runs>>

\* ------------------------------------------------------------------------
\* Bounds
\* ------------------------------------------------------------------------
MaxCalls == 2

\* lines of an initial file content
MaxLines == 3

\* applications of a rewrite to one content
MaxApply == 3

\* unrelated edits made to a file between applications
MaxEdits == 2

\* hardening operations started on one host
MaxRuns == 2

\* seconds the host clock advances
MaxClock == 1

\* calls of ConfigManager and modifications by its caller
MaxOps == 4

\* arguments on one command line
MaxArgs == 3

\* calls that write through a temporary file
MaxWrites == 2

\* ------------------------------------------------------------------------
\* Generic sequence helpers
\* ------------------------------------------------------------------------
Last(s) == s[Len(s)]

Front(s) == SubSeq(s, 1, Len(s) - 1)

RECURSIVE Flatten(_)
Flatten(ss) == IF ss = <<>> THEN <<>> ELSE Head(ss) \o Flatten(Tail(ss))

\* s without the elements equal to x
RECURSIVE Without(_, _)
Without(s, x) ==
    IF s = <<>> THEN <<>>
    ELSE IF Head(s) = x THEN Without(Tail(s), x)
         ELSE <<Head(s)>> \o Without(Tail(s), x)

InSeq(x, s) == \E i \in 1..Len(s) : s[i] = x

\* t occurs in s as a run of consecutive elements
IsInfix(t, s) ==
    \E i \in 0..(Len(s) - Len(t)) : SubSeq(s, i + 1, i + Len(t)) = t

\* ------------------------------------------------------------------------
\* Paths and swap size tokens
\* ------------------------------------------------------------------------
swap_file == "/swapfile"

TmpPath == "/swapfile.tmp"

PartitionDev == "/dev/sda2"

OtherSwapFile == "/swap.img"

Paths == {swap_file, TmpPath, PartitionDev, OtherSwapFile}

Kind(p) == IF p = PartitionDev THEN "partition" ELSE "file"

Digits == {"1", "2", "4"}

DigitVal(c) == IF c = "1" THEN 1 ELSE IF c = "2" THEN 2 ELSE 4

\* str.upper() on a size token, character by character
UpperChar(c) == IF c = "g" THEN "G" ELSE IF c = "m" THEN "M" ELSE IF c = "a" THEN "A" ELSE c

Upper(tok) == [i \in 1..Len(tok) |-> UpperChar(tok[i])]

\* size.endswith(("G", "M"))
EndsWithGM(tok) == Len(tok) > 0 /\ Last(tok) \in {"G", "M"}

\* the numeric prefix of a token is a non-empty run of digits
NumericPrefix(tok) ==
    /\ Len(tok) > 1
    /\ \A i \in 1..(Len(tok) - 1) : tok[i] \in Digits

RECURSIVE DecimalValue(_)
DecimalValue(ds) ==
    IF ds = <<>> THEN 0 ELSE 10 * DecimalValue(Front(ds)) + DigitVal(Last(ds))

\* what `fallocate -l <tok>` / int(size[:-1]) accept
WellFormed(tok) == EndsWithGM(tok) /\ NumericPrefix(tok)

\* the size in MB a well-formed token denotes
SizeMB(tok) ==
    IF Last(tok) = "G" THEN 1024 * DecimalValue(Front(tok)) ELSE DecimalValue(Front(tok))

\* the command-line arguments tried: "swap" alone, or "swap=<token>"
SwapArgs ==
    { [eq |-> FALSE, arg |-> <<>>] } \cup
    { [eq |-> TRUE, arg |-> t] :
        t \in { <<"4", "G">>, <<"2", "g">>, <<"1", "2", "M">>,
                <<"G">>, <<"a", "G">>, <<"4">>, <<>> } }

\* ------------------------------------------------------------------------
\* /etc/fstab
\* ------------------------------------------------------------------------
RootLine == <<"/dev/sda1", "/", "ext4", "defaults", "0", "1">>

SwapEntry(p, opts) == <<p, "none", "swap", opts, "0", "0">>

\* `echo '<line>' >> file`: the text is appended to the end, then a newline
AppendEcho(content, line) == Front(content) \o <<Last(content) \o line, <<>>>>

\* f.write("\n<line>\n") at the end of the file
AppendWrite(content, line) == content \o <<line, <<>>>>

\* `path in content` (substring test over the whole file)
Mentions(content, p) ==
    \E i \in 1..Len(content) : InSeq(p, content[i])

\* `new_entry in content`
HasEntry(content, entry) ==
    \E i \in 1..Len(content) : IsInfix(entry, content[i])

\* content.replace(path, new_entry): every occurrence of the path is replaced
ReplaceInLine(line, p, entry) ==
    Flatten([i \in 1..Len(line) |-> IF line[i] = p THEN entry ELSE <<line[i]>>])

ReplacePath(content, p, entry) ==
    [i \in 1..Len(content) |-> ReplaceInLine(content[i], p, entry)]

\* the fstab update of the resize branch
UpdateFstab(content, p) ==
    LET new_entry == SwapEntry(p, "sw") IN
    IF ~Mentions(content, p) THEN AppendWrite(content, new_entry)
    ELSE IF ~HasEntry(content, new_entry) THEN ReplacePath(content, p, new_entry)
    ELSE content

InitFstabs ==
    { <<RootLine, <<>>>>,
      <<RootLine, SwapEntry(swap_file, "sw"), <<>>>>,
      <<RootLine, SwapEntry(swap_file, "defaults"), <<>>>>,
      <<RootLine, SwapEntry(PartitionDev, "sw"), <<>>>>,
      <<RootLine, SwapEntry(OtherSwapFile, "sw"), <<>>>> }

\* ------------------------------------------------------------------------
\* increase_swap (debian_init.py / install_debian.py)
\* ------------------------------------------------------------------------
NoFiles == [p \in Paths |-> 0]

InitTopologies ==
    { [active |-> <<>>, fsize |-> NoFiles],
      [active |-> <<>>, fsize |-> [NoFiles EXCEPT ![swap_file] = 512]],
      [active |-> <<PartitionDev>>, fsize |-> [NoFiles EXCEPT ![PartitionDev] = 2048]],
      [active |-> <<swap_file>>, fsize |-> [NoFiles EXCEPT ![swap_file] = 1024]],
      [active |-> <<OtherSwapFile>>, fsize |-> [NoFiles EXCEPT ![OtherSwapFile] = 1024]] }

SwapInit ==
    /\ variant \in {"debian_init", "install_debian", "install_alpine"}
    /\ pc = "idle"
    /\ swap_size = <<>>
    /\ existing_file = "undef"
    /\ swap_type = "undef"
    /\ tmp_file = "undef"
    /\ \E t \in InitTopologies : active = t.active /\ fsize = t.fsize
    /\ fstab \in InitFstabs
    /\ result = "none"
    /\ calls = 0
    /\ issued = {}
    /\ pre = [active |-> active, fsize |-> fsize, fstab |-> fstab]

SwapIdle ==
    /\ variant = "debian_init"
    /\ pc = "idle"
    /\ swap_size = <<>>
    /\ existing_file = "undef"
    /\ swap_type = "undef"
    /\ tmp_file = "undef"
    /\ active = <<>>
    /\ fsize = NoFiles
    /\ fstab = <<RootLine, <<>>>>
    /\ result = "none"
    /\ calls = 0
    /\ issued = {}
    /\ pre = [active |-> active, fsize |-> fsize, fstab |-> fstab]

Locals == <<existing_file, swap_type, tmp_file>>

Host == <<active, fsize, fstab>>

\* an exception raised inside the try block enters the except handler
Raise == pc' = "cleanup"

\* CommandProcessor._handle_swap_command / the swap branch of main()
HandleSwapCommand(cmd) ==
    /\ pc = "idle"
    /\ calls < MaxCalls
    /\ calls' = calls + 1
    /\ issued' = {}
    /\ pre' = [active |-> active, fsize |-> fsize, fstab |-> fstab]
    /\ existing_file' = "undef"
    /\ swap_type' = "undef"
    /\ tmp_file' = "undef"
    /\ LET size == IF cmd.eq THEN Upper(cmd.arg) ELSE <<"1", "G">> IN
       /\ swap_size' = size
       /\ IF variant = "install_alpine"
            THEN pc' = "alp_parse" /\ result' = "none"
            ELSE IF cmd.eq /\ ~EndsWithGM(size)
                   THEN pc' = "done" /\ result' = "False"
                   ELSE pc' = "detect" /\ result' = "none"
    /\ UNCHANGED NotSwap
    /\ UNCHANGED <<variant, Host>>

\* result = run("swapon --show=NAME,TYPE --noheadings")
Detect ==
    /\ pc = "detect"
    /\ \E rc_ok \in BOOLEAN :
        IF ~rc_ok \/ active = <<>>
          THEN /\ pc' = "create_fallocate"
               /\ UNCHANGED Locals
          ELSE /\ existing_file' = Head(active)
               /\ swap_type' = Kind(Head(active))
               /\ pc' = IF Kind(Head(active)) = "partition"
                          THEN "create_fallocate" ELSE "file_fallocate"
               /\ UNCHANGED tmp_file
    /\ UNCHANGED NotSwap
    /\ UNCHANGED <<variant, swap_size, Host, result, calls, issued, pre>>

\* fallocate -l <size> <path>: refuses a malformed length and a busy swap file
Fallocate(p, ok) ==
    IF ok /\ WellFormed(swap_size) /\ ~InSeq(p, active)
      THEN /\ fsize' = [fsize EXCEPT ![p] = SizeMB(swap_size)]
           /\ issued' = issued \cup {<<"create", p>>}
           /\ UNCHANGED <<active, fstab>>
      ELSE UNCHANGED <<Host, issued>>

FallocateDone(p, ok) == ok /\ WellFormed(swap_size) /\ ~InSeq(p, active)

\* create_swapfile, cmds[0]
CreateFallocate ==
    /\ pc = "create_fallocate"
    /\ \E ok \in BOOLEAN :
        /\ Fallocate(swap_file, ok)
        /\ IF FallocateDone(swap_file, ok) THEN pc' = "create_chmod" ELSE Raise
    /\ UNCHANGED NotSwap
    /\ UNCHANGED <<variant, swap_size, Locals, result, calls, pre>>

\* create_swapfile, cmds[1] and cmds[2]: chmod 600, mkswap
CreateChmodMkswap ==
    /\ pc \in {"create_chmod", "create_mkswap"}
    /\ \E ok \in BOOLEAN :
        IF ok THEN pc' = (IF pc = "create_chmod" THEN "create_mkswap" ELSE "create_swapon")
        ELSE Raise
    /\ UNCHANGED NotSwap
    /\ UNCHANGED <<variant, swap_size, Locals, Host, result, calls, issued, pre>>

\* swapon <path>
Swapon(p) ==
    /\ active' = IF InSeq(p, active) THEN active ELSE Append(active, p)
    /\ issued' = issued \cup {<<"swapon", p>>}

\* swapoff <path>
Swapoff(p) ==
    /\ active' = Without(active, p)
    /\ issued' = issued \cup {<<"swapoff", p>>}

\* create_swapfile, cmds[3]
CreateSwapon ==
    /\ pc = "create_swapon"
    /\ \E ok \in BOOLEAN :
        IF ok /\ fsize[swap_file] > 0
          THEN Swapon(swap_file) /\ pc' = "create_fstab"
          ELSE Raise /\ UNCHANGED <<active, issued>>
    /\ UNCHANGED NotSwap
    /\ UNCHANGED <<variant, swap_size, Locals, fsize, fstab, result, calls, pre>>

\* create_swapfile, cmds[4], and what follows the call in either branch
CreateFstab ==
    /\ pc = "create_fstab"
    /\ \E ok \in BOOLEAN :
        IF ok
          THEN /\ fstab' = AppendEcho(fstab, SwapEntry(swap_file, "sw"))
               /\ issued' = issued \cup {<<"fstab", "/etc/fstab">>}
               /\ IF existing_file = "undef"
                    THEN pc' = "done" /\ result' = "True"
                    ELSE pc' = "verify" /\ UNCHANGED result
          ELSE Raise /\ UNCHANGED <<fstab, issued, result>>
    /\ UNCHANGED NotSwap
    /\ UNCHANGED <<variant, swap_size, Locals, active, fsize, calls, pre>>

\* run("fallocate -l .. /swapfile.tmp && chmod 600 /swapfile.tmp", check=True)
FileFallocate ==
    /\ pc = "file_fallocate"
    /\ tmp_file' = TmpPath
    /\ \E ok \in BOOLEAN, chmod_ok \in BOOLEAN :
        /\ Fallocate(TmpPath, ok)
        /\ IF FallocateDone(TmpPath, ok) /\ chmod_ok THEN pc' = "file_mkswap" ELSE Raise
    /\ UNCHANGED NotSwap
    /\ UNCHANGED <<variant, swap_size, existing_file, swap_type, result, calls, pre>>

\* run("mkswap /swapfile.tmp", check=True)
FileMkswap ==
    /\ pc = "file_mkswap"
    /\ \E ok \in BOOLEAN : IF ok THEN pc' = "file_swapoff" ELSE Raise
    /\ UNCHANGED NotSwap
    /\ UNCHANGED <<variant, swap_size, Locals, Host, result, calls, issued, pre>>

\* run("swapoff <existing_file>", check=True)
FileSwapoff ==
    /\ pc = "file_swapoff"
    /\ \E ok \in BOOLEAN :
        IF ok THEN Swapoff(existing_file) /\ pc' = "file_swapon"
        ELSE Raise /\ UNCHANGED <<active, issued>>
    /\ UNCHANGED NotSwap
    /\ UNCHANGED <<variant, swap_size, Locals, fsize, fstab, result, calls, pre>>

\* run("swapon /swapfile.tmp", check=True)
FileSwapon ==
    /\ pc = "file_swapon"
    /\ \E ok \in BOOLEAN :
        IF ok THEN Swapon(tmp_file) /\ pc' = "file_mv"
        ELSE Raise /\ UNCHANGED <<active, issued>>
    /\ UNCHANGED NotSwap
    /\ UNCHANGED <<variant, swap_size, Locals, fsize, fstab, result, calls, pre>>

\* run("mv /swapfile.tmp <existing_file>", check=True): the active area follows
\* its file to the new name
FileMv ==
    /\ pc = "file_mv"
    /\ \E ok \in BOOLEAN :
        IF ok
          THEN /\ fsize' = [fsize EXCEPT ![existing_file] = fsize[tmp_file], ![tmp_file] = 0]
               /\ active' = [i \in 1..Len(active) |->
                                IF active[i] = tmp_file THEN existing_file ELSE active[i]]
               /\ issued' = issued \cup {<<"mv", existing_file>>}
               /\ pc' = "file_fstab"
          ELSE Raise /\ UNCHANGED <<active, fsize, issued>>
    /\ UNCHANGED NotSwap
    /\ UNCHANGED <<variant, swap_size, Locals, fstab, result, calls, pre>>

\* with open("/etc/fstab", "r+") as f: ...
FileFstab ==
    /\ pc = "file_fstab"
    /\ \E ok \in BOOLEAN :
        IF ok
          THEN /\ fstab' = UpdateFstab(fstab, existing_file)
               /\ issued' = IF fstab' = fstab THEN issued
                            ELSE issued \cup {<<"fstab", "/etc/fstab">>}
               /\ pc' = "verify"
          ELSE Raise /\ UNCHANGED <<fstab, issued>>
    /\ UNCHANGED NotSwap
    /\ UNCHANGED <<variant, swap_size, Locals, active, fsize, result, calls, pre>>

\* check_result = run("swapon --show=<existing_file> --noheadings")
Verify ==
    /\ pc = "verify"
    /\ \E rc_ok \in BOOLEAN :
        IF rc_ok THEN pc' = "done" /\ result' = "True"
        ELSE Raise /\ UNCHANGED result
    /\ UNCHANGED NotSwap
    /\ UNCHANGED <<variant, swap_size, Locals, Host, calls, issued, pre>>

\* the names the except handler of debian_init.py finds bound in locals()
SwapoffTargets ==
    (IF existing_file # "undef" THEN {existing_file} ELSE {}) \cup {swap_file}

FilesToRemove ==
    {swap_file}
      \cup (IF existing_file # "undef" THEN {existing_file} ELSE {})
      \cup (IF tmp_file # "undef" THEN {tmp_file} ELSE {})

RECURSIVE WithoutAll(_, _)
WithoutAll(s, xs) ==
    IF s = <<>> THEN <<>>
    ELSE IF Head(s) \in xs THEN WithoutAll(Tail(s), xs)
         ELSE <<Head(s)>> \o WithoutAll(Tail(s), xs)

\* `swapoff a; swapoff b; ...` then `rm -f x y z`, errors ignored; unlinking a
\* file that is still an active swap area is refused by the kernel
RunCleanup(offs, rms) ==
    /\ active' = WithoutAll(active, offs)
    /\ fsize' = [p \in Paths |->
                    IF p \in rms /\ ~InSeq(p, WithoutAll(active, offs)) THEN 0 ELSE fsize[p]]
    /\ issued' = issued \cup {<<"swapoff", p>> : p \in offs} \cup {<<"rm", p>> : p \in rms}

\* except Exception as e: of debian_init.py
CleanupDebianInit ==
    /\ pc = "cleanup"
    /\ variant = "debian_init"
    /\ RunCleanup(SwapoffTargets, FilesToRemove)
    /\ pc' = "done"
    /\ result' = "False"
    /\ UNCHANGED NotSwap
    /\ UNCHANGED <<variant, swap_size, Locals, fstab, calls, pre>>

\* except Exception as e: of install_debian.py; the f-string reads existing_file
\* and tmp_file, which raises NameError when either is unbound
CleanupInstallDebian ==
    /\ pc = "cleanup"
    /\ variant = "install_debian"
    /\ IF existing_file = "undef" \/ tmp_file = "undef"
         THEN /\ result' = "raised"
              /\ UNCHANGED <<active, fsize, issued>>
         ELSE /\ RunCleanup({existing_file}, {swap_file, tmp_file})
              /\ result' = "False"
    /\ pc' = "done"
    /\ UNCHANGED NotSwap
    /\ UNCHANGED <<variant, swap_size, Locals, fstab, calls, pre>>

\* ------------------------------------------------------------------------
\* increase_swap (install_alpine.py)
\* ------------------------------------------------------------------------
\* int(size[:-1]) succeeds on a non-empty run of digits; size[-1] needs a character
AlpineParses(tok) == NumericPrefix(tok)

\* mb_size = num * 1024 if unit == 'G' else num
AlpineMB(tok) ==
    IF Last(tok) = "G" THEN 1024 * DecimalValue(Front(tok)) ELSE DecimalValue(Front(tok))

\* unit = size[-1].upper(); num = int(size[:-1]); mb_size = ...
AlpineParse ==
    /\ pc = "alp_parse"
    /\ pc' = IF AlpineParses(swap_size) THEN "alp_dd" ELSE "alp_cleanup"
    /\ UNCHANGED NotSwap
    /\ UNCHANGED <<variant, swap_size, Locals, Host, result, calls, issued, pre>>

\* dd if=/dev/zero of=/swapfile bs=1M count=<mb_size>
AlpineDd ==
    /\ pc = "alp_dd"
    /\ \E ok \in BOOLEAN :
        IF ok /\ ~InSeq(swap_file, active)
          THEN /\ fsize' = [fsize EXCEPT ![swap_file] = AlpineMB(swap_size)]
               /\ issued' = issued \cup {<<"create", swap_file>>}
               /\ pc' = "alp_chmod"
          ELSE /\ pc' = "alp_cleanup"
               /\ UNCHANGED <<fsize, issued>>
    /\ UNCHANGED NotSwap
    /\ UNCHANGED <<variant, swap_size, Locals, active, fstab, result, calls, pre>>

\* chmod 0600 /swapfile; mkswap /swapfile
AlpineChmodMkswap ==
    /\ pc \in {"alp_chmod", "alp_mkswap"}
    /\ \E ok \in BOOLEAN :
        pc' = IF ~ok THEN "alp_cleanup"
              ELSE IF pc = "alp_chmod" THEN "alp_mkswap" ELSE "alp_swapon"
    /\ UNCHANGED NotSwap
    /\ UNCHANGED <<variant, swap_size, Locals, Host, result, calls, issued, pre>>

\* swapon /swapfile
AlpineSwapon ==
    /\ pc = "alp_swapon"
    /\ \E ok \in BOOLEAN :
        IF ok /\ fsize[swap_file] > 0
          THEN Swapon(swap_file) /\ pc' = "alp_fstab"
          ELSE pc' = "alp_cleanup" /\ UNCHANGED <<active, issued>>
    /\ UNCHANGED NotSwap
    /\ UNCHANGED <<variant, swap_size, Locals, fsize, fstab, result, calls, pre>>

\* echo '/swapfile none swap defaults 0 0' >> /etc/fstab
AlpineFstab ==
    /\ pc = "alp_fstab"
    /\ \E ok \in BOOLEAN :
        IF ok
          THEN /\ fstab' = AppendEcho(fstab, SwapEntry(swap_file, "defaults"))
               /\ issued' = issued \cup {<<"fstab", "/etc/fstab">>}
               /\ pc' = "alp_rcupdate"
          ELSE pc' = "alp_cleanup" /\ UNCHANGED <<fstab, issued>>
    /\ UNCHANGED NotSwap
    /\ UNCHANGED <<variant, swap_size, Locals, active, fsize, result, calls, pre>>

\* rc-update add swap, then return True
AlpineRcUpdate ==
    /\ pc = "alp_rcupdate"
    /\ \E ok \in BOOLEAN :
        IF ok THEN pc' = "done" /\ result' = "True"
        ELSE pc' = "alp_cleanup" /\ UNCHANGED result
    /\ UNCHANGED NotSwap
    /\ UNCHANGED <<variant, swap_size, Locals, Host, calls, issued, pre>>

\* except Exception: run("rm -f /swapfile"); return False
AlpineCleanup ==
    /\ pc = "alp_cleanup"
    /\ RunCleanup({}, {swap_file})
    /\ pc' = "done"
    /\ result' = "False"
    /\ UNCHANGED NotSwap
    /\ UNCHANGED <<variant, swap_size, Locals, fstab, calls, pre>>

\* control returns to the command loop
Return ==
    /\ pc = "done"
    /\ pc' = "idle"
    /\ UNCHANGED NotSwap
    /\ UNCHANGED <<variant, swap_size, Locals, Host, result, calls, issued, pre>>

SwapNext ==
    \/ \E cmd \in SwapArgs : HandleSwapCommand(cmd)
    \/ Detect
    \/ CreateFallocate
    \/ CreateChmodMkswap
    \/ CreateSwapon
    \/ CreateFstab
    \/ FileFallocate
    \/ FileMkswap
    \/ FileSwapoff
    \/ FileSwapon
    \/ FileMv
    \/ FileFstab
    \/ Verify
    \/ CleanupDebianInit
    \/ CleanupInstallDebian
    \/ AlpineParse
    \/ AlpineDd
    \/ AlpineChmodMkswap
    \/ AlpineSwapon
    \/ AlpineFstab
    \/ AlpineRcUpdate
    \/ AlpineCleanup
    \/ Return


\* ------------------------------------------------------------------------
\* Lines of the directive files (/etc/sysctl.conf, /etc/gai.conf)
\* ------------------------------------------------------------------------
Blank == " "

Hash == "#"

BbrMarker == "# BBR Configuration"

BbrMarkerZh == "# BBR (zh)"

QdiscKey == "net.core.default_qdisc"

CcKey == "net.ipv4.tcp_congestion_control"

IpMarker == "# IP Priority Configuration"

IpMarkerZh == "# IP priority (zh)"

PrecedenceKey == "precedence"

LabelKey == "label"

\* str.strip(): leading and trailing whitespace removed
RECURSIVE LStrip(_)
LStrip(line) ==
    IF line # <<>> /\ Head(line) = Blank THEN LStrip(Tail(line)) ELSE line

RECURSIVE RStrip(_)
RStrip(line) ==
    IF line # <<>> /\ Last(line) = Blank THEN RStrip(Front(line)) ELSE line

Strip(line) == RStrip(LStrip(line))

\* line.startswith(key)
StartsWith(line, key) == line # <<>> /\ Head(line) = key

\* line.startswith('#'): the markers are comments themselves
StartsWithHash(line) ==
    line # <<>> /\ Head(line) \in {Hash, BbrMarker, BbrMarkerZh, IpMarker, IpMarkerZh}

\* '\n'.join(lines), read back as the lines of the resulting string
JoinLines(lines) == IF lines = <<>> THEN << <<>> >> ELSE lines

\* ---- the BBR block of enable_bbr (debian_init.py) ----
BbrMarkerLine == <<BbrMarker, " - Auto Generated">>

QdiscLine == <<QdiscKey, "=fq">>

CcLine == <<CcKey, "=bbr">>

\* '# BBR Configuration' in line or '# BBR (zh)' in line
IsBbrMarker(line) == InSeq(BbrMarker, line) \/ InSeq(BbrMarkerZh, line)

IsBbrDirective(line) == StartsWith(line, QdiscKey) \/ StartsWith(line, CcKey)

\* CleanBbr with the directive lines of the skipped section kept
RECURSIVE CleanBbrKeepsDirectives(_, _)
CleanBbrKeepsDirectives(lines, skip_bbr_section) ==
    IF lines = <<>> THEN <<>>
    ELSE LET line == Strip(Head(lines))
             rest == Tail(lines)
         IN  IF IsBbrMarker(line) THEN CleanBbrKeepsDirectives(rest, TRUE)
             ELSE IF skip_bbr_section /\ (line = <<>> \/ StartsWithHash(line))
                    THEN (IF line # <<>> THEN <<line>> ELSE <<>>)
                           \o CleanBbrKeepsDirectives(rest, FALSE)
             ELSE <<line>> \o CleanBbrKeepsDirectives(rest, skip_bbr_section)

\* the loop over lines that builds cleaned_lines
RECURSIVE CleanBbr(_, _)
CleanBbr(lines, skip_bbr_section) ==
    IF lines = <<>> THEN <<>>
    ELSE LET line == Strip(Head(lines))
             rest == Tail(lines)
         IN  IF IsBbrMarker(line) THEN CleanBbr(rest, TRUE)
             ELSE IF skip_bbr_section /\ IsBbrDirective(line)
                    THEN CleanBbr(rest, skip_bbr_section)
             ELSE IF skip_bbr_section /\ (line = <<>> \/ StartsWithHash(line))
                    THEN (IF line # <<>> THEN <<line>> ELSE <<>>) \o CleanBbr(rest, FALSE)
             ELSE <<line>> \o CleanBbr(rest, FALSE)

\* f.write('\n'.join(cleaned_lines)); f.write(bbr_config); f.write('\n')
RewriteBbr(content) ==
    JoinLines(CleanBbr(content, FALSE)) \o <<BbrMarkerLine, QdiscLine, CcLine, <<>>>>

\* with open("/etc/sysctl.conf", "a") of enable_bbr in install_debian.py
AppendBbrInstallDebian(content) ==
    content \o << <<BbrMarker>>, QdiscLine, CcLine, <<>> >>

\* with open("/etc/sysctl.conf", "a") of enable_bbr in install_alpine.py
AppendBbrAlpine(content) ==
    content \o <<QdiscLine, CcLine, <<>>>>

\* number of lines of a content that satisfy a test on the stripped line
IsQdiscLine(line) == StartsWith(line, QdiscKey)

IsCcLine(line) == StartsWith(line, CcKey)

\* number of lines of a content that hold the marker / start with a directive key
MarkerCount(content) ==
    Cardinality({i \in 1..Len(content) : IsBbrMarker(Strip(content[i]))})

QdiscCount(content) ==
    Cardinality({i \in 1..Len(content) : IsQdiscLine(Strip(content[i]))})

CcCount(content) ==
    Cardinality({i \in 1..Len(content) : IsCcLine(Strip(content[i]))})

\* ---- the precedence block of configure_ip_priority (debian_init.py) ----
IsIpMarker(line) == InSeq(IpMarker, line) \/ InSeq(IpMarkerZh, line)

\* the loop over lines that builds cleaned_lines; the inner if of the skipping
\* branch can never be taken, so the branch only drops lines
RECURSIVE CleanIp(_, _)
CleanIp(lines, skip_priority_section) ==
    IF lines = <<>> THEN <<>>
    ELSE LET original_line == Head(lines)
             line == Strip(Head(lines))
             rest == Tail(lines)
         IN  IF IsIpMarker(line) THEN CleanIp(rest, TRUE)
             ELSE IF skip_priority_section /\
                     (StartsWith(line, PrecedenceKey) \/ StartsWith(line, LabelKey)
                        \/ line = <<>> \/ StartsWithHash(line))
                    THEN CleanIp(rest, skip_priority_section)
             ELSE <<original_line>> \o CleanIp(rest, FALSE)

priority_config(priority) ==
    IF priority = "ipv4"
      THEN << <<IpMarker, " - IPv4 Preferred">>,
              <<Hash, " IPv4 first (zh)">>,
              <<PrecedenceKey, " ::ffff:0:0/96  100">>,
              <<PrecedenceKey, " ::/0          50">>,
              <<PrecedenceKey, " 2002::/16     30">>,
              <<PrecedenceKey, " ::/96         20">>,
              <<PrecedenceKey, " ::1/128       40">> >>
      ELSE << <<IpMarker, " - IPv6 Preferred">>,
              <<Hash, " IPv6 first (zh)">>,
              <<PrecedenceKey, " ::/0          100">>,
              <<PrecedenceKey, " ::ffff:0:0/96 50">>,
              <<PrecedenceKey, " 2002::/16     30">>,
              <<PrecedenceKey, " ::/96         20">>,
              <<PrecedenceKey, " ::1/128       40">> >>

\* f.write('\n'.join(cleaned_lines)); f.write(priority_config); f.write('\n')
RewriteIp(content, priority) ==
    JoinLines(CleanIp(content, FALSE)) \o priority_config(priority) \o << <<>> >>

\* ---- contents the rewrites are tried on ----
SysctlLines ==
    { <<>>,
      <<"vm.swappiness=10">>,
      <<Blank, "vm.swappiness=10">>,
      <<Hash, " tuning">>,
      <<Hash, " ", CcKey>>,
      BbrMarkerLine,
      <<BbrMarker>>,
      QdiscLine,
      CcLine,
      <<Blank, CcKey, "=cubic">> }

GaiLines ==
    { <<>>,
      <<"scopev4 ::ffff:0.0.0.0/96 14">>,
      <<Blank, "reload yes">>,
      <<Hash, " comment">>,
      <<IpMarker, " - IPv6 Preferred">>,
      <<PrecedenceKey, " ::/0          100">>,
      <<Blank, PrecedenceKey, " ::1/128       40">>,
      <<LabelKey, " ::1/128 0">> }

\* the non-empty sequences of at most n lines drawn from a set of lines
Contents(lineSet, n) == UNION { [1..k -> lineSet] : k \in 1..n }

\* ------------------------------------------------------------------------
\* Repeated application of a managed-block rewrite to one file content
\* ------------------------------------------------------------------------
RwInit ==
    /\ rw_block \in {"bbr", "ipv4", "ipv6"}
    /\ rw_content \in IF rw_block = "bbr" THEN Contents(SysctlLines, MaxLines)
                      ELSE Contents(GaiLines, MaxLines)
    /\ rw_prev = rw_content
    /\ rw_first = rw_content
    /\ rw_count = 0
    /\ rw_edits = 0

RwIdle ==
    /\ rw_block = "bbr"
    /\ rw_content = << <<>> >>
    /\ rw_prev = rw_content
    /\ rw_first = rw_content
    /\ rw_count = 0
    /\ rw_edits = 0

\* steps 3 and 4 of enable_bbr
ApplyRewriteBbr ==
    /\ rw_block = "bbr"
    /\ rw_count < MaxApply
    /\ rw_prev' = rw_content
    /\ rw_content' = RewriteBbr(rw_content)
    /\ rw_count' = rw_count + 1
    /\ UNCHANGED <<rw_block, rw_first, rw_edits>>
    /\ UNCHANGED NotRw

\* steps 3 to 5 of configure_ip_priority
ApplyRewriteIp ==
    /\ rw_block \in {"ipv4", "ipv6"}
    /\ rw_count < MaxApply
    /\ rw_prev' = rw_content
    /\ rw_content' = RewriteIp(rw_content, rw_block)
    /\ rw_count' = rw_count + 1
    /\ UNCHANGED <<rw_block, rw_first, rw_edits>>
    /\ UNCHANGED NotRw

RwNext ==
    \/ ApplyRewriteBbr
    \/ ApplyRewriteIp

\* ------------------------------------------------------------------------
\* enable_bbr applied again and again to a sysctl file that is edited by hand
\* in between; the file starts without any BBR line
\* ------------------------------------------------------------------------
UnrelatedLines ==
    { <<>>,
      <<"vm.swappiness=10">>,
      <<Hash, " tuning">> }

EditInit ==
    /\ rw_block = "bbr"
    /\ rw_content \in Contents(UnrelatedLines, MaxLines)
    /\ rw_prev = rw_content
    /\ rw_first = rw_content
    /\ rw_count = 0
    /\ rw_edits = 0

\* an administrator inserts an unrelated line somewhere in the file
EditInsert ==
    /\ rw_edits < MaxEdits
    /\ \E i \in 0..Len(rw_content), line \in UnrelatedLines \ {<<>>} :
         rw_content' = SubSeq(rw_content, 1, i) \o <<line>>
                          \o SubSeq(rw_content, i + 1, Len(rw_content))
    /\ rw_edits' = rw_edits + 1
    /\ UNCHANGED <<rw_block, rw_prev, rw_first, rw_count>>
    /\ UNCHANGED NotRw

EditNext ==
    \/ ApplyRewriteBbr
    \/ EditInsert



\* ------------------------------------------------------------------------
\* Configuration files, backups and the clock
\* ------------------------------------------------------------------------
SysctlConf == "/etc/sysctl.conf"

GaiConf == "/etc/gai.conf"

sshd_config == "/etc/ssh/sshd_config"

ConfigPaths == {SysctlConf, GaiConf, sshd_config}

Absent == <<>>

\* the port of a daemon whose sshd_config has no uncommented Port line
DefaultSshPort == 22

NoBackups == <<>>

\* os.path.exists(backup_file), with the empty name being falsy
BackupExists(name) == name # <<>> /\ name \in DOMAIN backups

\* f"{path}.bak.{int(time.time())}"
BackupName(path) == <<path, clock>>

\* a copy that leaves an empty backup file
CopyToBackupTruncated(name, content) ==
    [n \in DOMAIN backups \cup {name} |-> IF n = name THEN << <<>> >> ELSE backups[n]]

\* cp <path> <backup>: an existing file of that name is overwritten
CopyToBackup(name, content) ==
    [n \in DOMAIN backups \cup {name} |-> IF n = name THEN content ELSE backups[n]]

\* what is left of the backups once `mv <backup> <path>` has moved one away
WithoutBackup(name) == [n \in DOMAIN backups \ {name} |-> backups[n]]

\* the host clock advances between two operations
Tick ==
    /\ t_pc = "idle"
    /\ clock < MaxClock
    /\ clock' = clock + 1
    /\ UNCHANGED <<t_variant, t_pc, files, backups, backup_file, port, bound, sshd_port,
                   cmd_i, t_result, t_pre, t_log, t_runs>>
    /\ UNCHANGED NotTxn

\* control returns to the command loop
TxnReturn ==
    /\ t_pc = "done"
    /\ t_pc' = "idle"
    /\ UNCHANGED <<t_variant, files, backups, clock, backup_file, port, bound, sshd_port,
                   cmd_i, t_result, t_pre, t_log, t_runs>>
    /\ UNCHANGED NotTxn

TxnIdle ==
    /\ t_variant = "debian_init"
    /\ t_pc = "idle"
    /\ files = [p \in ConfigPaths |-> Absent]
    /\ backups = NoBackups
    /\ clock = 0
    /\ backup_file = <<>>
    /\ port = 0
    /\ bound = {}
    /\ sshd_port = DefaultSshPort
    /\ cmd_i = 1
    /\ t_result = "none"
    /\ t_pre = files
    /\ t_log = {}
    /\ t_runs = 0

\* ------------------------------------------------------------------------
\* config_sshd
\* ------------------------------------------------------------------------
PortLow == 60000

PortHigh == 65535

AlpinePortHigh == 65500

\* the values of random.randint the model draws
PortDraws == {PortLow, PortLow + 1, PortHigh}

PortRange(v) ==
    IF v = "install_alpine" THEN PortLow..AlpinePortHigh ELSE PortLow..PortHigh

DefaultSshdConfig ==
    << <<"#Port", " 22">>,
       <<"#PermitRootLogin", " prohibit-password">>,
       <<"#PasswordAuthentication", " yes">>,
       <<"#PubkeyAuthentication", " yes">>,
       <<>> >>

InitSshdConfigs ==
    { DefaultSshdConfig,
      << <<"Port", " ", "22">>,
         <<"PermitRootLogin", " yes">>,
         <<"PasswordAuthentication", " yes">>,
         <<>> >> }

\* the port a daemon started on this sshd_config listens on
ListenPort(content) ==
    LET ps == {q \in PortDraws \cup {DefaultSshPort} :
                  \E i \in 1..Len(content) : content[i] = <<"Port", " ", ToString(q)>>}
    IN IF ps = {} THEN DefaultSshPort ELSE CHOOSE q \in ps : TRUE

IsPrefix(t, line) == Len(t) <= Len(line) /\ SubSeq(line, 1, Len(t)) = t

\* sed -i 's/^<key>.*/<to>/': a line that starts with the key is replaced whole
SedLine(content, key, to) ==
    [i \in 1..Len(content) |-> IF StartsWith(content[i], key) THEN to ELSE content[i]]

\* sed -i 's/^<from>/<to>/': the start of a line is replaced, the rest kept
SedPrefix(content, from, to) ==
    [i \in 1..Len(content) |->
        IF IsPrefix(from, content[i])
          THEN to \o SubSeq(content[i], Len(from) + 1, Len(content[i]))
          ELSE content[i]]

PortCommand(p) == [kind |-> "line", from |-> <<"#Port">>, to |-> <<"Port", " ", ToString(p)>>]

RootLoginCommand ==
    [kind |-> "line", from |-> <<"#PermitRootLogin">>,
     to |-> <<"PermitRootLogin", " prohibit-password">>]

PasswordCommands ==
    << [kind |-> "prefix", from |-> <<"PasswordAuthentication", " yes">>,
        to |-> <<"PasswordAuthentication", " no">>],
       [kind |-> "prefix", from |-> <<"#PasswordAuthentication", " yes">>,
        to |-> <<"PasswordAuthentication", " no">>],
       [kind |-> "prefix", from |-> <<"#PubkeyAuthentication", " yes">>,
        to |-> <<"PubkeyAuthentication", " yes">>] >>

ClientAliveCommands ==
    << [kind |-> "prefix", from |-> <<"#ClientAliveInterval", " 0">>,
        to |-> <<"ClientAliveInterval", " 30">>],
       [kind |-> "prefix", from |-> <<"#ClientAliveCountMax", " 3">>,
        to |-> <<"ClientAliveCountMax", " 6">>] >>

EchoCommand(line) == [kind |-> "echo", from |-> <<>>, to |-> line]

\* rm -rf /etc/ssh/sshd_config.d/*
RmDropinsCommand == [kind |-> "rm", from |-> <<>>, to |-> <<>>]

\* config_commands / cmds of the three scripts
config_commands(v, p) ==
    IF v = "debian_init"
      THEN <<PortCommand(p), RootLoginCommand>> \o PasswordCommands \o ClientAliveCommands
             \o <<EchoCommand(<<"AllowUsers root">>), RmDropinsCommand>>
    ELSE IF v = "install_debian"
      THEN <<PortCommand(p), RootLoginCommand>> \o PasswordCommands
             \o <<EchoCommand(<<"AllowUsers root">>), RmDropinsCommand>>
    ELSE <<PortCommand(p), RootLoginCommand>> \o PasswordCommands
             \o <<EchoCommand(<<"KbdInteractiveAuthentication no ">>)>>

\* the effect of one command on the content of sshd_config
ApplyCommand(cmd, content) ==
    IF cmd.kind = "line" THEN SedLine(content, Head(cmd.from), cmd.to)
    ELSE IF cmd.kind = "prefix" THEN SedPrefix(content, cmd.from, cmd.to)
    ELSE IF cmd.kind = "echo" THEN AppendEcho(content, cmd.to)
    ELSE content

SshdInit ==
    /\ t_variant \in {"debian_init", "install_debian", "install_alpine"}
    /\ t_pc = "idle"
    /\ \E c \in InitSshdConfigs \cup {Absent} :
          files = [p \in ConfigPaths |-> IF p = sshd_config THEN c ELSE Absent]
    /\ (t_variant = "install_alpine" => files[sshd_config] # Absent)
    /\ backups = NoBackups
    /\ clock = 0
    /\ backup_file = <<>>
    /\ port = 0
    /\ bound \in SUBSET {PortLow, PortHigh}
    /\ sshd_port = IF files[sshd_config] = Absent THEN 0 ELSE ListenPort(files[sshd_config])
    /\ cmd_i = 1
    /\ t_result = "none"
    /\ t_pre = files
    /\ t_log = {}
    /\ t_runs = 0

\* the command loop calls config_sshd
ConfigSshdStart ==
    /\ t_pc = "idle"
    /\ t_runs < MaxRuns
    /\ t_runs' = t_runs + 1
    /\ t_pre' = files
    /\ t_log' = {}
    /\ backup_file' = <<>>
    /\ cmd_i' = 1
    /\ t_result' = "none"
    /\ t_pc' = IF t_variant = "install_alpine" THEN "port" ELSE "install"
    /\ UNCHANGED <<t_variant, files, backups, clock, port, bound, sshd_port>>
    /\ UNCHANGED NotTxn

\* 1. install openssh-server when sshd_config is missing
SshdInstall ==
    /\ t_pc = "install"
    /\ IF files[sshd_config] # Absent
         THEN t_pc' = "port" /\ UNCHANGED <<files, sshd_port>>
         ELSE \E ok \in BOOLEAN :
                IF ok THEN /\ files' = [files EXCEPT ![sshd_config] = DefaultSshdConfig]
                           /\ sshd_port' = ListenPort(DefaultSshdConfig)
                           /\ t_pc' = "port"
                ELSE t_pc' = "except_called_process_error" /\ UNCHANGED <<files, sshd_port>>
    /\ UNCHANGED <<t_variant, backups, clock, backup_file, port, bound,
                   cmd_i, t_result, t_pre, t_log, t_runs>>
    /\ UNCHANGED NotTxn

\* a probe that reports every port as free
IsPortAvailableAlways(p) == TRUE

\* is_port_available(port): the connection to localhost:port is refused;
\* `netstat -ltn | grep -q :port` of install_alpine.py finds no listener
is_port_available(p) == p \notin bound \cup {sshd_port}

\* a port loop that gives up after a draw that is in use
SshdDrawPortGivesUp ==
    /\ t_pc = "port"
    /\ \E p \in PortDraws \cap PortRange(t_variant) :
        /\ port' = p
        /\ t_pc' = IF ~is_port_available(p) THEN "except_exception"
                   ELSE IF t_variant = "install_alpine" THEN "commands" ELSE "backup"
    /\ UNCHANGED <<t_variant, files, backups, clock, backup_file, bound, sshd_port,
                   cmd_i, t_result, t_pre, t_log, t_runs>>
    /\ UNCHANGED NotTxn

\* 2. port = random.randint(..); while not is_port_available(port): ...
SshdDrawPort ==
    /\ t_pc = "port"
    /\ \E p \in PortDraws \cap PortRange(t_variant) :
        /\ port' = p
        /\ t_pc' = IF ~is_port_available(p) THEN "port"
                   ELSE IF t_variant = "install_alpine" THEN "commands" ELSE "backup"
    /\ UNCHANGED <<t_variant, files, backups, clock, backup_file, bound, sshd_port,
                   cmd_i, t_result, t_pre, t_log, t_runs>>
    /\ UNCHANGED NotTxn

\* 3. backup_file = f"{sshd_config}.bak.{int(time.time())}"; run("cp ..", check=True)
SshdBackup ==
    /\ t_pc = "backup"
    /\ backup_file' = BackupName(sshd_config)
    /\ \E ok \in BOOLEAN :
        IF ok THEN /\ backups' = CopyToBackup(BackupName(sshd_config), files[sshd_config])
                   /\ t_pc' = "commands"
        ELSE t_pc' = "except_called_process_error" /\ UNCHANGED backups
    /\ UNCHANGED <<t_variant, files, clock, port, bound, sshd_port,
                   cmd_i, t_result, t_pre, t_log, t_runs>>
    /\ UNCHANGED NotTxn

\* for cmd in config_commands: run(cmd, check=True)
SshdCommand ==
    /\ t_pc = "commands"
    /\ LET cmds == config_commands(t_variant, port) IN
       \E ok \in BOOLEAN :
        IF ok
          THEN /\ files' = [files EXCEPT
                              ![sshd_config] = ApplyCommand(cmds[cmd_i], files[sshd_config])]
               /\ t_log' = t_log \cup {"wrote"}
               /\ cmd_i' = cmd_i + 1
               /\ t_pc' = IF cmd_i = Len(cmds) THEN "keygen" ELSE "commands"
          ELSE /\ t_pc' = IF t_variant = "install_alpine" THEN "except_exception"
                          ELSE "except_called_process_error"
               /\ UNCHANGED <<files, t_log, cmd_i>>
    /\ UNCHANGED <<t_variant, backups, clock, backup_file, port, bound, sshd_port,
                   t_result, t_pre, t_runs>>
    /\ UNCHANGED NotTxn

\* 4. run("ssh-keygen ..", check=True)
SshdKeygen ==
    /\ t_pc = "keygen"
    /\ \E ok \in BOOLEAN :
        t_pc' = IF ok THEN (IF t_variant = "install_alpine" THEN "restart" ELSE "pubkey")
                ELSE IF t_variant = "install_alpine" THEN "except_exception"
                ELSE "except_called_process_error"
    /\ UNCHANGED <<t_variant, files, backups, clock, backup_file, port, bound, sshd_port,
                   cmd_i, t_result, t_pre, t_log, t_runs>>
    /\ UNCHANGED NotTxn

\* 5. read the public key and append it to authorized_keys (file I/O may raise)
SshdPubkey ==
    /\ t_pc = "pubkey"
    /\ \E ok \in BOOLEAN : t_pc' = IF ok THEN "sshd_t" ELSE "except_exception"
    /\ UNCHANGED <<t_variant, files, backups, clock, backup_file, port, bound, sshd_port,
                   cmd_i, t_result, t_pre, t_log, t_runs>>
    /\ UNCHANGED NotTxn

\* 6. run("sshd -t", check=True)
SshdTest ==
    /\ t_pc = "sshd_t"
    /\ \E ok \in BOOLEAN :
        IF ok THEN t_pc' = "restart" /\ t_log' = t_log \cup {"sshd_t_ok"}
        ELSE t_pc' = "except_called_process_error" /\ t_log' = t_log \cup {"sshd_t_failed"}
    /\ UNCHANGED <<t_variant, files, backups, clock, backup_file, port, bound, sshd_port,
                   cmd_i, t_result, t_pre, t_runs>>
    /\ UNCHANGED NotTxn

\* run("systemctl restart sshd", check=True) / rc-update add, rc-service restart
SshdRestart ==
    /\ t_pc = "restart"
    /\ \E ok \in BOOLEAN :
        IF ok
          THEN /\ t_log' = t_log \cup {"restarted"}
               /\ sshd_port' = ListenPort(files[sshd_config])
               /\ IF t_variant = "install_alpine"
                    THEN t_pc' = "done" /\ t_result' = "True"
                    ELSE t_pc' = "is_active" /\ UNCHANGED t_result
          ELSE /\ t_pc' = IF t_variant = "install_alpine" THEN "except_exception"
                          ELSE "except_called_process_error"
               /\ sshd_port' \in {sshd_port, 0}
               /\ UNCHANGED <<t_log, t_result>>
    /\ UNCHANGED <<t_variant, files, backups, clock, backup_file, port, bound,
                   cmd_i, t_pre, t_runs>>
    /\ UNCHANGED NotTxn

\* status = run("systemctl is-active sshd"); raise Exception unless active
SshdIsActive ==
    /\ t_pc = "is_active"
    /\ \E is_active \in BOOLEAN :
        IF is_active THEN t_pc' = "done" /\ t_result' = "True"
        ELSE t_pc' = "except_exception" /\ UNCHANGED t_result
    /\ UNCHANGED <<t_variant, files, backups, clock, backup_file, port, bound, sshd_port,
                   cmd_i, t_pre, t_log, t_runs>>
    /\ UNCHANGED NotTxn

\* except subprocess.CalledProcessError: mv the backup back, restart, log that
\* the backup was restored, return False; neither run() checks its return code
SshdExceptCalledProcessError ==
    /\ t_pc = "except_called_process_error"
    /\ IF BackupExists(backup_file)
         THEN \E ok \in BOOLEAN, up \in BOOLEAN :
                /\ IF ok
                     THEN /\ files' = [files EXCEPT ![sshd_config] = backups[backup_file]]
                          /\ backups' = WithoutBackup(backup_file)
                          /\ t_log' = t_log \cup {"restored", "restarted_after_restore",
                                                  "reported_restored"}
                     ELSE /\ t_log' = t_log \cup {"restore_failed", "restarted_after_restore",
                                                  "reported_restored"}
                          /\ UNCHANGED <<files, backups>>
                /\ sshd_port' = IF up THEN ListenPort(files'[sshd_config]) ELSE 0
         ELSE UNCHANGED <<files, backups, t_log, sshd_port>>
    /\ t_pc' = "done"
    /\ t_result' = "False"
    /\ UNCHANGED <<t_variant, clock, backup_file, port, bound, cmd_i, t_pre, t_runs>>
    /\ UNCHANGED NotTxn

\* except Exception: log the error, return False
SshdExceptException ==
    /\ t_pc = "except_exception"
    /\ t_pc' = "done"
    /\ t_result' = "False"
    /\ UNCHANGED <<t_variant, files, backups, clock, backup_file, port, bound, sshd_port,
                   cmd_i, t_pre, t_log, t_runs>>
    /\ UNCHANGED NotTxn

SshdNext ==
    \/ ConfigSshdStart
    \/ SshdInstall
    \/ SshdDrawPort
    \/ SshdBackup
    \/ SshdCommand
    \/ SshdKeygen
    \/ SshdPubkey
    \/ SshdTest
    \/ SshdRestart
    \/ SshdIsActive
    \/ SshdExceptCalledProcessError
    \/ SshdExceptException
    \/ TxnReturn
    \/ Tick

\* ------------------------------------------------------------------------
\* ConfigManager, driven by an arbitrary caller
\* ------------------------------------------------------------------------
CmContents ==
    { << <<>> >>,
      << <<Hash, " tuning">>, <<>> >>,
      << <<"vm.swappiness=10">>, <<Hash, " tuning">> >> }

CmInit ==
    /\ t_variant = "debian_init"
    /\ t_pc = "idle"
    /\ files \in [ConfigPaths -> {Absent, << <<"vm.swappiness=10">>, <<>> >>}]
    /\ backups = NoBackups
    /\ clock = 0
    /\ backup_file = <<>>
    /\ port = 0
    /\ bound = {}
    /\ sshd_port = DefaultSshPort
    /\ cmd_i = 1
    /\ t_result = "none"
    /\ t_pre = [p \in ConfigPaths |-> Absent]
    /\ t_log = {}
    /\ t_runs = 0
    /\ cm_last = "none"
    /\ cm_path = SysctlConf
    /\ cm_ret = <<>>
    /\ cm_snaps = <<>>
    /\ cm_before = [files |-> files, backups |-> backups]
    /\ cm_ops = 0

CmIdle ==
    /\ cm_last = "none"
    /\ cm_path = SysctlConf
    /\ cm_ret = <<>>
    /\ cm_snaps = <<>>
    /\ cm_before = [files |-> files, backups |-> backups]
    /\ cm_ops = 0

CmStep(path) ==
    /\ cm_ops < MaxOps
    /\ cm_ops' = cm_ops + 1
    /\ cm_path' = path
    /\ cm_before' = [files |-> files, backups |-> backups]

\* f"{file_path}.bak.{timestamp}", timestamp being the clock to the second
backup_path(file_path) == <<file_path, clock>>

\* what create_backup puts into the backup file: run(f"cp {file_path} {backup_path}")
BackupPayloadEmpty(file_path) == << <<>> >>

BackupPayload(file_path) == files[file_path]

\* what restore_backup leaves at original_path: run(f"mv {backup_path} {original_path}")
RestoredContentKeepsFile(name, original_path) == files[original_path]

RestoredContent(name, original_path) == backups[name]

\* ConfigManager.create_backup(file_path)
CreateBackup(file_path) ==
    /\ CmStep(file_path)
    /\ IF files[file_path] = Absent
         THEN /\ cm_last' = "create_missing"
              /\ cm_ret' = <<>>
              /\ UNCHANGED <<backups, cm_snaps>>
         ELSE \E ok \in BOOLEAN :
                IF ok
                  THEN /\ backups' = CopyToBackup(backup_path(file_path),
                                                  BackupPayload(file_path))
                       /\ cm_snaps' = [n \in DOMAIN cm_snaps \cup {backup_path(file_path)} |->
                                         IF n = backup_path(file_path) THEN files[file_path]
                                         ELSE cm_snaps[n]]
                       /\ cm_last' = "create"
                       /\ cm_ret' = backup_path(file_path)
                  ELSE /\ cm_last' = "create_failed"
                       /\ cm_ret' = <<>>
                       /\ UNCHANGED <<backups, cm_snaps>>
    /\ UNCHANGED <<files, clock>>
    /\ UNCHANGED CmFrame
    /\ UNCHANGED NotCm

\* the caller changes, creates or deletes a configuration file
ModifyFile(path) ==
    /\ CmStep(path)
    /\ \E c \in CmContents \cup {Absent} :
        /\ c # files[path]
        /\ files' = [files EXCEPT ![path] = c]
    /\ cm_last' = "modify"
    /\ UNCHANGED <<backups, clock, cm_ret, cm_snaps>>
    /\ UNCHANGED CmFrame
    /\ UNCHANGED NotCm

\* ConfigManager.restore_backup(backup_path, original_path), with the backup of
\* original_path
RestoreBackup(name) ==
    /\ CmStep(name[1])
    /\ cm_ret' = name
    /\ IF name \notin DOMAIN backups
         THEN /\ cm_last' = "restore_missing"
              /\ UNCHANGED <<files, backups>>
         ELSE \E ok \in BOOLEAN :
                IF ok
                  THEN /\ files' = [files EXCEPT ![name[1]] = RestoredContent(name, name[1])]
                       /\ backups' = WithoutBackup(name)
                       /\ cm_last' = "restore"
                  ELSE /\ cm_last' = "restore_failed"
                       /\ UNCHANGED <<files, backups>>
    /\ UNCHANGED <<clock, cm_snaps>>
    /\ UNCHANGED CmFrame
    /\ UNCHANGED NotCm

\* the host clock advances between two calls
CmTick ==
    /\ clock < MaxClock
    /\ clock' = clock + 1
    /\ UNCHANGED <<files, backups>>
    /\ UNCHANGED cmVars
    /\ UNCHANGED CmFrame
    /\ UNCHANGED NotCm

CmNext ==
    \/ \E path \in {SysctlConf, GaiConf} : CreateBackup(path)
    \/ \E path \in {SysctlConf, GaiConf} : ModifyFile(path)
    \/ \E name \in {SysctlConf, GaiConf} \X (0..MaxClock) : RestoreBackup(name)
    \/ CmTick

\* ------------------------------------------------------------------------
\* main(): the command loop of the three scripts
\* ------------------------------------------------------------------------
\* the arguments tried: two operations, the help flag, a swap command with a
\* well-formed and one with a malformed size, and an option no script knows
KnownArgs == {"bbr", "sshd"}

HelpArgs == {"--help"}

SwapArgWellFormed == "swap=4G"

SwapArgMalformed == "swap=4X"

UnknownArg == "nosuch"

Args == KnownArgs \cup HelpArgs \cup {SwapArgWellFormed, SwapArgMalformed, UnknownArg}

\* command.startswith("swap")
IsSwapArg(arg) == arg \in {SwapArgWellFormed, SwapArgMalformed}

\* what the operation behind an argument can do: return True, return False,
\* or let an exception escape
Outcomes == {"True", "False", "raise"}

MainInit ==
    /\ m_variant \in {"debian_init", "install_debian", "install_alpine"}
    /\ argv \in UNION {[1..n -> Args] : n \in 1..MaxArgs}
    /\ argv[1] \notin HelpArgs
    /\ arg_i = 1
    /\ m_pc = "loop"
    /\ success_count = 0
    /\ total_count = 0
    /\ exit_code = 0
    /\ m_seen = {}
    /\ m_failures = {}

MainIdle ==
    /\ m_variant = "debian_init"
    /\ argv = <<"bbr">>
    /\ arg_i = 1
    /\ m_pc = "loop"
    /\ success_count = 0
    /\ total_count = 0
    /\ exit_code = 0
    /\ m_seen = {}
    /\ m_failures = {}

\* sys.exit(1) inside the loop
SysExit ==
    /\ m_pc' = "exited"
    /\ exit_code' = 1

\* for arg in sys.argv[1:]: the loop takes up the next argument, or ends
MainNextArg ==
    /\ m_pc = "loop"
    /\ IF arg_i > Len(argv)
         THEN /\ m_pc' = IF m_variant = "debian_init" THEN "summary" ELSE "returned"
              /\ UNCHANGED <<m_seen, total_count>>
         ELSE /\ m_seen' = m_seen \cup {arg_i}
              /\ IF argv[arg_i] \in HelpArgs /\ m_variant # "install_alpine"
                   THEN m_pc' = "loop_end" /\ UNCHANGED total_count
                   ELSE /\ m_pc' = "call"
                        /\ total_count' = IF m_variant = "debian_init"
                                            THEN total_count + 1 ELSE total_count
    /\ UNCHANGED <<m_variant, argv, arg_i, success_count, exit_code, m_failures>>
    /\ UNCHANGED NotMain

\* the end of the loop body: on to the next argument
MainLoopEnd ==
    /\ m_pc = "loop_end"
    /\ arg_i' = arg_i + 1
    /\ m_pc' = "loop"
    /\ UNCHANGED <<m_variant, argv, success_count, total_count, exit_code, m_seen, m_failures>>
    /\ UNCHANGED NotMain

\* processor.process_command(arg) and the rest of the loop body of
\* debian_init.py
ProcessCommandDebianInit ==
    /\ m_pc = "call"
    /\ m_variant = "debian_init"
    /\ LET arg == argv[arg_i] IN
       \E out \in Outcomes :
         LET \* what process_command returns, or "raise"
             r == IF arg = SwapArgMalformed THEN "False"
                  ELSE IF IsSwapArg(arg) THEN out
                  ELSE IF arg \in KnownArgs THEN (IF out = "raise" THEN "False" ELSE out)
                  ELSE "False"
         IN /\ success_count' = IF r = "True" THEN success_count + 1 ELSE success_count
            /\ total_count' = IF r = "raise" THEN total_count + 1 ELSE total_count
            /\ m_failures' = IF r = "True" THEN m_failures ELSE m_failures \cup {arg_i}
    /\ m_pc' = "loop_end"
    /\ UNCHANGED <<m_variant, argv, arg_i, exit_code, m_seen>>
    /\ UNCHANGED NotMain

\* the if/elif chain of main() of install_debian.py
DispatchInstallDebian ==
    /\ m_pc = "call"
    /\ m_variant = "install_debian"
    /\ LET arg == argv[arg_i] IN
       IF arg = SwapArgMalformed \/ arg = UnknownArg
         THEN /\ SysExit
              /\ m_failures' = m_failures \cup {arg_i}
         ELSE \E out \in Outcomes :
                IF out = "raise"
                  THEN /\ SysExit
                       /\ m_failures' = m_failures \cup {arg_i}
                  ELSE /\ m_pc' = "loop_end"
                       /\ m_failures' = IF out = "False" THEN m_failures \cup {arg_i}
                                        ELSE m_failures
                       /\ UNCHANGED exit_code
    /\ UNCHANGED <<m_variant, argv, arg_i, success_count, total_count, m_seen>>
    /\ UNCHANGED NotMain

\* the if/elif chain of main() of install_alpine.py: every swap size is handed
\* to increase_swap, and the chain has no branch for the help flag
DispatchInstallAlpine ==
    /\ m_pc = "call"
    /\ m_variant = "install_alpine"
    /\ LET arg == argv[arg_i] IN
       IF arg = UnknownArg \/ arg \in HelpArgs
         THEN /\ SysExit
              /\ m_failures' = m_failures \cup {arg_i}
         ELSE \E out \in Outcomes :
                IF out = "raise"
                  THEN /\ SysExit
                       /\ m_failures' = m_failures \cup {arg_i}
                  ELSE /\ m_pc' = "loop_end"
                       /\ m_failures' = IF out = "False" THEN m_failures \cup {arg_i}
                                        ELSE m_failures
                       /\ UNCHANGED exit_code
    /\ UNCHANGED <<m_variant, argv, arg_i, success_count, total_count, m_seen>>
    /\ UNCHANGED NotMain

\* the execution summary of debian_init.py: sys.exit(1) unless all succeeded
MainSummary ==
    /\ m_pc = "summary"
    /\ m_pc' = "returned"
    /\ exit_code' = IF total_count > 0 /\ success_count < total_count THEN 1 ELSE 0
    /\ UNCHANGED <<m_variant, argv, arg_i, success_count, total_count, m_seen, m_failures>>
    /\ UNCHANGED NotMain

MainNext ==
    \/ MainNextArg
    \/ MainLoopEnd
    \/ ProcessCommandDebianInit
    \/ DispatchInstallDebian
    \/ DispatchInstallAlpine
    \/ MainSummary

\* ------------------------------------------------------------------------
\* Writes through a temporary file: ConfigManager.atomic_write and the rc-file
\* update of config_shell (debian_init.py)
\* ------------------------------------------------------------------------
RcFile == "~/.bashrc"

EmptyText == << <<>> >>

\* config_marker, without its final newline
ConfigMarker == "# === AUTO CONFIGURED BY SCRIPT ==="

\* config_content: a blank line, the marker, a blank line, the export and alias
\* lines (two of them stand for the twelve), and the vim alias when nvim is found
config_content(nvim) ==
    << <<>>, <<ConfigMarker>>, <<>>, <<"export HISTSIZE=10000">>,
       <<"alias ll=\"ls -lh --color=auto\"">> >>
      \o (IF nvim THEN << <<"alias vim=\"nvim\"">> >> ELSE <<>>) \o << <<>> >>

\* the text a followed by the text b
ConcatText(a, b) == Front(a) \o <<Last(a) \o Head(b)>> \o Tail(b)

\* config_marker in f.read(): the marker text followed by a newline
HasConfigMarker(content) ==
    \E i \in 1..(Len(content) - 1) : content[i] # <<>> /\ Last(content[i]) = ConfigMarker

\* the texts handed to atomic_write
AwContents ==
    { EmptyText,
      << <<"vm.swappiness=10">>, <<>> >>,
      << <<Hash, " tuning">>, <<"vm.swappiness=10">>, <<>> >> }

\* the rc files config_shell finds
RcContents ==
    { << <<"export PATH=$PATH:~/bin">>, <<>> >>,
      << <<"export PATH=$PATH:~/bin">> >>,
      ConcatText(<< <<"export PATH=$PATH:~/bin">>, <<>> >>, config_content(FALSE)) }

AwInit ==
    /\ aw_variant \in {"atomic_write", "config_shell"}
    /\ aw_pc = "idle"
    /\ aw_target \in (IF aw_variant = "atomic_write" THEN AwContents ELSE RcContents)
                        \cup {Absent}
    /\ aw_tmp = Absent
    /\ aw_content = EmptyText
    /\ aw_ret = "none"
    /\ aw_old = aw_target
    /\ aw_new = aw_target
    /\ aw_reads = {}
    /\ aw_log = {}
    /\ aw_calls = 0

AwIdle ==
    /\ aw_variant = "atomic_write"
    /\ aw_pc = "idle"
    /\ aw_target = Absent
    /\ aw_tmp = Absent
    /\ aw_content = EmptyText
    /\ aw_ret = "none"
    /\ aw_old = aw_target
    /\ aw_new = aw_target
    /\ aw_reads = {}
    /\ aw_log = {}
    /\ aw_calls = 0

\* the bookkeeping at the start of a call
AwBegin ==
    /\ aw_pc = "idle"
    /\ aw_calls < MaxWrites
    /\ aw_calls' = aw_calls + 1
    /\ aw_old' = aw_target
    /\ aw_reads' = {}
    /\ aw_log' = {}

\* return False from the except clause / return True
AwReturns(r) ==
    /\ aw_pc' = "done"
    /\ aw_ret' = r

\* ConfigManager.atomic_write(file_path, content) is called
AtomicWriteCall(content) ==
    /\ aw_variant = "atomic_write"
    /\ AwBegin
    /\ aw_content' = content
    /\ aw_new' = content
    /\ aw_pc' = "open"
    /\ UNCHANGED <<aw_variant, aw_target, aw_tmp, aw_ret>>
    /\ UNCHANGED txnVars
    /\ UNCHANGED NotAw

\* config_shell() up to the backup: time zone, shell type, os.path.exists(rc_file)
ConfigShellCall ==
    /\ aw_variant = "config_shell"
    /\ AwBegin
    /\ \E ok \in BOOLEAN, supported \in BOOLEAN, nvim \in BOOLEAN :
        /\ aw_content' = config_content(nvim)
        /\ aw_new' = IF aw_target = Absent THEN Absent
                     ELSE ConcatText(aw_target, config_content(nvim))
        /\ IF ~ok \/ ~supported THEN AwReturns("False")
           ELSE IF aw_target = Absent THEN AwReturns("True")
           ELSE aw_pc' = "backup" /\ UNCHANGED aw_ret
    /\ UNCHANGED <<aw_variant, aw_target, aw_tmp>>
    /\ UNCHANGED txnVars
    /\ UNCHANGED NotAw

\* run(f"cp {rc_file} {backup_file}", check=True)
ConfigShellBackup ==
    /\ aw_pc = "backup"
    /\ \E ok \in BOOLEAN :
        IF ok THEN /\ backups' = CopyToBackup(BackupName(RcFile), aw_target)
                   /\ aw_pc' = "check"
                   /\ UNCHANGED aw_ret
        ELSE AwReturns("False") /\ UNCHANGED backups
    /\ UNCHANGED <<aw_variant, aw_target, aw_tmp, aw_content, aw_old, aw_new,
                   aw_reads, aw_log, aw_calls>>
    /\ UNCHANGED <<files, clock>>
    /\ UNCHANGED CmFrame
    /\ UNCHANGED NotAw

\* if config_marker in f.read(): continue
ConfigShellCheckMarker ==
    /\ aw_pc = "check"
    /\ IF HasConfigMarker(aw_target)
         THEN AwReturns("True") /\ aw_new' = aw_target
         ELSE aw_pc' = "open" /\ UNCHANGED <<aw_ret, aw_new>>
    /\ UNCHANGED <<aw_variant, aw_target, aw_tmp, aw_content, aw_old,
                   aw_reads, aw_log, aw_calls>>
    /\ UNCHANGED txnVars
    /\ UNCHANGED NotAw

\* with open(tmp_file, "w") as f: the temporary file is created or truncated
AwOpen ==
    /\ aw_pc = "open"
    /\ \E ok \in BOOLEAN :
        IF ok THEN aw_tmp' = EmptyText /\ aw_pc' = "write" /\ UNCHANGED aw_ret
        ELSE AwReturns("False") /\ UNCHANGED aw_tmp
    /\ UNCHANGED <<aw_variant, aw_target, aw_content, aw_old, aw_new,
                   aw_reads, aw_log, aw_calls>>
    /\ UNCHANGED txnVars
    /\ UNCHANGED NotAw

\* the text the call writes into the temporary file
FullText ==
    IF aw_variant = "atomic_write" THEN aw_content
    ELSE ConcatText(aw_target, aw_content)

\* f.write(..): all of the text reaches the temporary file, or the write fails
\* with nothing or a part of the text written
AwWrite ==
    /\ aw_pc = "write"
    /\ \/ /\ aw_tmp' = FullText
          /\ aw_pc' = "replace"
          /\ UNCHANGED aw_ret
       \/ /\ \E k \in 0..(Len(FullText) - 1) :
                aw_tmp' = IF k = 0 THEN EmptyText ELSE SubSeq(FullText, 1, k)
          /\ AwReturns("False")
    /\ UNCHANGED <<aw_variant, aw_target, aw_content, aw_old, aw_new,
                   aw_reads, aw_log, aw_calls>>
    /\ UNCHANGED txnVars
    /\ UNCHANGED NotAw

\* a rename that loses the content
RenamedTruncated(tmp) == EmptyText

\* what os.replace(tmp_file, file_path) leaves at file_path
Renamed(tmp) == tmp

\* os.replace(tmp_file, file_path)
AwReplace ==
    /\ aw_pc = "replace"
    /\ \E ok \in BOOLEAN :
        IF ok THEN /\ aw_target' = Renamed(aw_tmp)
                   /\ aw_tmp' = Absent
                   /\ aw_log' = aw_log \cup {"renamed"}
                   /\ AwReturns("True")
        ELSE AwReturns("False") /\ UNCHANGED <<aw_target, aw_tmp, aw_log>>
    /\ UNCHANGED <<aw_variant, aw_content, aw_old, aw_new, aw_reads, aw_calls>>
    /\ UNCHANGED txnVars
    /\ UNCHANGED NotAw

\* another process reads the target file while the call runs
AwRead ==
    /\ aw_pc # "idle"
    /\ aw_target \notin aw_reads
    /\ aw_reads' = aw_reads \cup {aw_target}
    /\ UNCHANGED <<aw_variant, aw_pc, aw_target, aw_tmp, aw_content, aw_ret, aw_old,
                   aw_new, aw_log, aw_calls>>
    /\ UNCHANGED txnVars
    /\ UNCHANGED NotAw

\* control returns to the caller
AwReturn ==
    /\ aw_pc = "done"
    /\ aw_pc' = "idle"
    /\ UNCHANGED <<aw_variant, aw_target, aw_tmp, aw_content, aw_ret, aw_old,
                   aw_new, aw_reads, aw_log, aw_calls>>
    /\ UNCHANGED txnVars
    /\ UNCHANGED NotAw

AwNext ==
    \/ \E content \in AwContents : AtomicWriteCall(content)
    \/ ConfigShellCall
    \/ ConfigShellBackup
    \/ ConfigShellCheckMarker
    \/ AwOpen
    \/ AwWrite
    \/ AwReplace
    \/ AwRead
    \/ AwReturn

\* ------------------------------------------------------------------------
\* config_shell of install_alpine.py, next to config_shell of debian_init.py
\* ------------------------------------------------------------------------
\* the first line of `config` of install_alpine.py
AlpineConfigMarker == "# === AUTO CONFIGURED ==="

\* config: the marker, the export and alias lines (two of them stand for the
\* nine), and the two nvim lines when nvim is found
alpine_config(nvim) ==
    << <<AlpineConfigMarker>>, <<"export HISTSIZE=10000">>,
       <<"alias ll=\"ls -lh --color=auto\"">> >>
      \o (IF nvim THEN << <<"alias vim='nvim'">>, <<"export EDITOR='nvim'">> >> ELSE <<>>)
      \o << <<>> >>

\* rc_file of config_shell of install_alpine.py
ProfileFile == "~/.profile"

\* the ~/.profile files config_shell of install_alpine.py finds
ProfileContents ==
    { << <<"export PATH=$PATH:~/bin">>, <<>> >>,
      << <<"export PATH=$PATH:~/bin">> >> }

ShellInit ==
    /\ aw_variant \in {"config_shell", "install_alpine"}
    /\ aw_pc = "idle"
    /\ aw_target \in (IF aw_variant = "config_shell" THEN RcContents ELSE ProfileContents)
                        \cup {Absent}
    /\ aw_tmp = Absent
    /\ aw_content = EmptyText
    /\ aw_ret = "none"
    /\ aw_old = aw_target
    /\ aw_new = aw_target
    /\ aw_reads = {}
    /\ aw_log = {}
    /\ aw_calls = 0

\* config_shell() of install_alpine.py up to the backup: the time zone link
\* and the nvim test
AlpineShellCall ==
    /\ aw_variant = "install_alpine"
    /\ AwBegin
    /\ \E ok \in BOOLEAN, nvim \in BOOLEAN :
        /\ aw_content' = alpine_config(nvim)
        /\ aw_new' = ConcatText(IF aw_target = Absent THEN EmptyText ELSE aw_target,
                                alpine_config(nvim))
        /\ IF ok THEN aw_pc' = "alpine_backup" /\ UNCHANGED aw_ret
           ELSE AwReturns("False")
    /\ UNCHANGED <<aw_variant, aw_target, aw_tmp>>
    /\ UNCHANGED txnVars
    /\ UNCHANGED NotAw

\* if os.path.exists(rc_file): run(f"cp {rc_file} {rc_file}.bak.{timestamp}", check=True)
AlpineShellBackup ==
    /\ aw_pc = "alpine_backup"
    /\ IF aw_target = Absent
         THEN aw_pc' = "alpine_append" /\ UNCHANGED <<aw_ret, backups>>
         ELSE \E ok \in BOOLEAN :
                IF ok THEN /\ backups' = CopyToBackup(BackupName(ProfileFile), aw_target)
                           /\ aw_pc' = "alpine_append"
                           /\ UNCHANGED aw_ret
                ELSE AwReturns("False") /\ UNCHANGED backups
    /\ UNCHANGED <<aw_variant, aw_target, aw_tmp, aw_content, aw_old, aw_new,
                   aw_reads, aw_log, aw_calls>>
    /\ UNCHANGED <<files, clock>>
    /\ UNCHANGED CmFrame
    /\ UNCHANGED NotAw

\* with open(rc_file, "a") as f: f.write(config): the file is created when it
\* is missing and the text is appended to it, or open() raises
AlpineShellAppend ==
    /\ aw_pc = "alpine_append"
    /\ \E ok \in BOOLEAN :
        IF ok THEN /\ aw_target' = ConcatText(IF aw_target = Absent THEN EmptyText
                                              ELSE aw_target, aw_content)
                   /\ aw_log' = aw_log \cup {"appended"}
                   /\ AwReturns("True")
        ELSE AwReturns("False") /\ UNCHANGED <<aw_target, aw_log>>
    /\ UNCHANGED <<aw_variant, aw_tmp, aw_content, aw_old, aw_new, aw_reads, aw_calls>>
    /\ UNCHANGED txnVars
    /\ UNCHANGED NotAw

ShellNext ==
    \/ ConfigShellCall
    \/ ConfigShellBackup
    \/ ConfigShellCheckMarker
    \/ AwOpen
    \/ AwWrite
    \/ AwReplace
    \/ AlpineShellCall
    \/ AlpineShellBackup
    \/ AlpineShellAppend
    \/ AwReturn

\* ------------------------------------------------------------------------
\* enable_bbr, as an operation on the host
\* ------------------------------------------------------------------------
\* 'fq' in qdisc.stdout: a substring test, which fq_codel passes too
FqIn(q) == q \in {"fq", "fq_codel"}

\* check_bbr_enabled() of the running script
check_bbr_enabled ==
    IF t_variant = "debian_init"
      THEN rt_avail /\ rt_cc = "bbr" /\ FqIn(rt_qdisc)
      ELSE rt_cc = "bbr" /\ FqIn(rt_qdisc)

\* the header enable_bbr writes into a sysctl.conf it had to create
SysctlHeader ==
    << <<Hash, " /etc/sysctl.conf - Configuration file for setting system variables">>,
       <<Hash, " See /etc/sysctl.d/ for additional system variables.">>,
       <<>>, <<>> >>

InitSysctlConfs ==
    { Absent, EmptyText, << <<"vm.swappiness=10">>, <<>> >>, RewriteBbr(EmptyText) }

RtIdle ==
    /\ rt_cc = "cubic"
    /\ rt_qdisc = "pfifo_fast"
    /\ rt_avail = FALSE
    /\ bbr_content = EmptyText

BbrInit ==
    /\ t_variant \in {"debian_init", "install_debian", "install_alpine"}
    /\ t_pc = "idle"
    /\ \E c \in InitSysctlConfs :
          files = [p \in ConfigPaths |-> IF p = SysctlConf THEN c ELSE Absent]
    /\ backups = NoBackups
    /\ clock = 0
    /\ backup_file = <<>>
    /\ port = 0
    /\ bound = {}
    /\ sshd_port = DefaultSshPort
    /\ cmd_i = 1
    /\ t_result = "none"
    /\ t_pre = files
    /\ t_log = {}
    /\ t_runs = 0
    /\ rt_cc \in {"cubic", "bbr"}
    /\ rt_qdisc \in {"pfifo_fast", "fq_codel", "fq"}
    /\ rt_avail \in BOOLEAN
    /\ (rt_cc = "bbr" => rt_avail)
    /\ bbr_content = EmptyText

BbrReturns(r) ==
    /\ t_pc' = "done"
    /\ t_result' = r

\* raise inside the try block
BbrRaise == t_pc' = "bbr_except" /\ UNCHANGED t_result

\* the command loop calls enable_bbr: the runtime check, then the backup name
EnableBbrStart ==
    /\ t_pc = "idle"
    /\ t_runs < MaxRuns
    /\ t_runs' = t_runs + 1
    /\ t_pre' = files
    /\ t_log' = {}
    /\ IF t_variant = "install_alpine"
         THEN t_pc' = "bbr_append" /\ t_result' = "none" /\ backup_file' = <<>>
         ELSE IF check_bbr_enabled
           THEN BbrReturns("True") /\ backup_file' = <<>>
           ELSE /\ backup_file' = BackupName(SysctlConf)
                /\ t_result' = "none"
                /\ t_pc' = IF t_variant = "debian_init" THEN "bbr_probe" ELSE "bbr_backup"
    /\ UNCHANGED <<files, backups, clock>>
    /\ UNCHANGED <<BbrFrame, bbrVars>>
    /\ UNCHANGED NotBbr

\* 1. 'bbr' in tcp_available_congestion_control, else modprobe tcp_bbr
BbrProbe ==
    /\ t_pc = "bbr_probe"
    /\ IF rt_avail
         THEN t_pc' = "bbr_ensure" /\ UNCHANGED <<t_result, rt_avail>>
         ELSE \E ok \in BOOLEAN :
                IF ok THEN rt_avail' = TRUE /\ t_pc' = "bbr_ensure" /\ UNCHANGED t_result
                ELSE BbrReturns("False") /\ UNCHANGED rt_avail
    /\ UNCHANGED <<files, backups, clock, backup_file, t_pre, t_log, t_runs>>
    /\ UNCHANGED <<BbrFrame, rt_cc, rt_qdisc, bbr_content>>
    /\ UNCHANGED NotBbr

\* 2. create /etc/sysctl.conf with its header when it does not exist
BbrEnsureFile ==
    /\ t_pc = "bbr_ensure"
    /\ IF files[SysctlConf] # Absent
         THEN t_pc' = "bbr_backup" /\ UNCHANGED <<files, t_log>>
         ELSE \E ok \in BOOLEAN :
                IF ok THEN /\ files' = [files EXCEPT ![SysctlConf] = SysctlHeader]
                           /\ t_log' = t_log \cup {"created"}
                           /\ t_pc' = "bbr_backup"
                ELSE t_pc' = "bbr_except" /\ UNCHANGED <<files, t_log>>
    /\ UNCHANGED <<backups, clock, backup_file, t_result, t_pre, t_runs>>
    /\ UNCHANGED <<BbrFrame, bbrVars>>
    /\ UNCHANGED NotBbr

\* run(f"cp {sysctl_conf} {backup_file}", check=True)
BbrBackup ==
    /\ t_pc = "bbr_backup"
    /\ \E ok \in BOOLEAN :
        IF ok /\ files[SysctlConf] # Absent
          THEN /\ backups' = CopyToBackup(backup_file, files[SysctlConf])
               /\ t_pc' = IF t_variant = "debian_init" THEN "bbr_read" ELSE "bbr_append"
          ELSE t_pc' = "bbr_except" /\ UNCHANGED backups
    /\ UNCHANGED <<files, clock, backup_file, t_result, t_pre, t_log, t_runs>>
    /\ UNCHANGED <<BbrFrame, bbrVars>>
    /\ UNCHANGED NotBbr

\* 3. content = f.read(), and the cleaning loop over its lines
BbrRead ==
    /\ t_pc = "bbr_read"
    /\ bbr_content' = files[SysctlConf]
    /\ t_pc' = "bbr_open"
    /\ UNCHANGED <<files, backups, clock, backup_file, t_result, t_pre, t_log, t_runs>>
    /\ UNCHANGED <<BbrFrame, rt_cc, rt_qdisc, rt_avail>>
    /\ UNCHANGED NotBbr

\* 4. with open(sysctl_conf, "w") as f: the file is truncated
BbrOpen ==
    /\ t_pc = "bbr_open"
    /\ \E ok \in BOOLEAN :
        IF ok THEN /\ files' = [files EXCEPT ![SysctlConf] = EmptyText]
                   /\ t_log' = t_log \cup {"truncated"}
                   /\ t_pc' = "bbr_write"
        ELSE t_pc' = "bbr_except" /\ UNCHANGED <<files, t_log>>
    /\ UNCHANGED <<backups, clock, backup_file, t_result, t_pre, t_runs>>
    /\ UNCHANGED <<BbrFrame, bbrVars>>
    /\ UNCHANGED NotBbr

\* f.write('\n'.join(cleaned_lines)); f.write(bbr_config); f.write('\n')
BbrWrite ==
    /\ t_pc = "bbr_write"
    /\ \E ok \in BOOLEAN :
        IF ok THEN /\ files' = [files EXCEPT ![SysctlConf] = RewriteBbr(bbr_content)]
                   /\ t_log' = t_log \cup {"wrote"}
                   /\ t_pc' = "bbr_sysctl_qdisc"
        ELSE t_pc' = "bbr_except" /\ UNCHANGED <<files, t_log>>
    /\ UNCHANGED <<backups, clock, backup_file, t_result, t_pre, t_runs>>
    /\ UNCHANGED <<BbrFrame, bbrVars>>
    /\ UNCHANGED NotBbr

\* with open("/etc/sysctl.conf", "a") as f: f.write(..) of the two older scripts
BbrAppend ==
    /\ t_pc = "bbr_append"
    /\ \E ok \in BOOLEAN :
        IF ok
          THEN /\ LET old == IF files[SysctlConf] = Absent THEN EmptyText
                             ELSE files[SysctlConf]
                   IN files' = [files EXCEPT ![SysctlConf] =
                                   IF t_variant = "install_debian"
                                     THEN AppendBbrInstallDebian(old)
                                     ELSE AppendBbrAlpine(old)]
               /\ t_log' = t_log \cup {"wrote"}
               /\ t_pc' = "bbr_sysctl_p"
               /\ UNCHANGED t_result
          ELSE /\ IF t_variant = "install_debian" THEN BbrRaise ELSE BbrReturns("False")
               /\ UNCHANGED <<files, t_log>>
    /\ UNCHANGED <<backups, clock, backup_file, t_pre, t_runs>>
    /\ UNCHANGED <<BbrFrame, bbrVars>>
    /\ UNCHANGED NotBbr

\* 5. sysctl -w net.core.default_qdisc=fq
BbrSysctlQdisc ==
    /\ t_pc = "bbr_sysctl_qdisc"
    /\ \E ok \in BOOLEAN :
        IF ok THEN rt_qdisc' = "fq" /\ t_pc' = "bbr_sysctl_cc"
        ELSE t_pc' = "bbr_except" /\ UNCHANGED rt_qdisc
    /\ UNCHANGED <<files, backups, clock, backup_file, t_result, t_pre, t_log, t_runs>>
    /\ UNCHANGED <<BbrFrame, rt_cc, rt_avail, bbr_content>>
    /\ UNCHANGED NotBbr

\* sysctl -w net.ipv4.tcp_congestion_control=bbr, then sysctl -p (its failure
\* is only logged)
BbrSysctlCc ==
    /\ t_pc = "bbr_sysctl_cc"
    /\ \E ok \in BOOLEAN :
        IF ok /\ rt_avail THEN rt_cc' = "bbr" /\ t_pc' = "bbr_final_check"
        ELSE t_pc' = "bbr_except" /\ UNCHANGED rt_cc
    /\ UNCHANGED <<files, backups, clock, backup_file, t_result, t_pre, t_log, t_runs>>
    /\ UNCHANGED <<BbrFrame, rt_qdisc, rt_avail, bbr_content>>
    /\ UNCHANGED NotBbr

\* 6. the final check_bbr_enabled() of debian_init.py: True is returned either way
BbrFinalCheck ==
    /\ t_pc = "bbr_final_check"
    /\ BbrReturns("True")
    /\ t_log' = t_log \cup {IF check_bbr_enabled THEN "verified" ELSE "unverified"}
    /\ UNCHANGED <<files, backups, clock, backup_file, t_pre, t_runs>>
    /\ UNCHANGED <<BbrFrame, bbrVars>>
    /\ UNCHANGED NotBbr

\* sysctl -p of the two older scripts: the values of the file become the
\* runtime values; then the second check of install_debian.py
BbrSysctlP ==
    /\ t_pc = "bbr_sysctl_p"
    /\ \E ok \in BOOLEAN :
        IF ok /\ rt_avail
          THEN /\ rt_qdisc' = "fq"
               /\ rt_cc' = "bbr"
               /\ BbrReturns("True")
          ELSE /\ rt_qdisc' \in {rt_qdisc, "fq"}
               /\ UNCHANGED rt_cc
               /\ IF t_variant = "install_debian" THEN BbrRaise ELSE BbrReturns("False")
    /\ UNCHANGED <<files, backups, clock, backup_file, t_pre, t_log, t_runs>>
    /\ UNCHANGED <<BbrFrame, rt_avail, bbr_content>>
    /\ UNCHANGED NotBbr

\* except Exception: mv the backup back (unchecked), log that the backup was
\* restored, return False; install_debian.py does not test that the backup exists
BbrExcept ==
    /\ t_pc = "bbr_except"
    /\ IF BackupExists(backup_file)
         THEN \E ok \in BOOLEAN :
                IF ok THEN /\ files' = [files EXCEPT ![SysctlConf] = backups[backup_file]]
                           /\ backups' = WithoutBackup(backup_file)
                           /\ t_log' = t_log \cup {"restored", "reported_restored"}
                ELSE /\ t_log' = t_log \cup {"restore_failed", "reported_restored"}
                     /\ UNCHANGED <<files, backups>>
         ELSE /\ t_log' = IF t_variant = "install_debian"
                            THEN t_log \cup {"restore_failed", "reported_restored"}
                            ELSE t_log
              /\ UNCHANGED <<files, backups>>
    /\ BbrReturns("False")
    /\ UNCHANGED <<clock, backup_file, t_pre, t_runs>>
    /\ UNCHANGED <<BbrFrame, bbrVars>>
    /\ UNCHANGED NotBbr

\* control returns to the command loop
BbrReturn ==
    /\ t_pc = "done"
    /\ t_pc' = "idle"
    /\ UNCHANGED <<files, backups, clock, backup_file, t_result, t_pre, t_log, t_runs>>
    /\ UNCHANGED <<BbrFrame, bbrVars>>
    /\ UNCHANGED NotBbr

\* the host clock advances between two operations
BbrTick ==
    /\ t_pc = "idle"
    /\ clock < MaxClock
    /\ clock' = clock + 1
    /\ UNCHANGED <<t_pc, files, backups, backup_file, t_result, t_pre, t_log, t_runs>>
    /\ UNCHANGED <<BbrFrame, bbrVars>>
    /\ UNCHANGED NotBbr

BbrNext ==
    \/ EnableBbrStart
    \/ BbrProbe
    \/ BbrEnsureFile
    \/ BbrBackup
    \/ BbrRead
    \/ BbrOpen
    \/ BbrWrite
    \/ BbrAppend
    \/ BbrSysctlQdisc
    \/ BbrSysctlCc
    \/ BbrFinalCheck
    \/ BbrSysctlP
    \/ BbrExcept
    \/ BbrReturn
    \/ BbrTick

\* ------------------------------------------------------------------------
\* Claims
\* ------------------------------------------------------------------------
ResizePcs == {"file_mkswap", "file_swapoff", "file_swapon", "file_mv", "file_fstab", "verify"}

\* C1: while increase_swap resizes an existing swap file, at least one swap
\* area is active in every state (the new area is switched on before the old
\* one is switched off)
C1_SwapContinuity ==
    (swap_type = "file" /\ pc \in ResizePcs) => Len(active) >= 1


\* C2: when config_sshd of debian_init.py returns False after it has edited
\* sshd_config, it has moved the backup back onto sshd_config (or tried to and
\* the move failed)
C2_RestoredOrVerified ==
    (t_variant = "debian_init" /\ t_pc = "done" /\ t_result = "False" /\ "wrote" \in t_log) =>
        ("restored" \in t_log \/ "restore_failed" \in t_log)

\* C3: once increase_swap has written /etc/fstab, a backup file holding the
\* pre-call content of /etc/fstab exists
C3_BackupBeforeWrite ==
    <<"fstab", "/etc/fstab">> \in issued =>
        \E n \in DOMAIN backups : n[1] = "/etc/fstab" /\ backups[n] = pre.fstab

\* C4: after any number (at least one) of applications of enable_bbr, with
\* unrelated lines inserted in between, the file holds exactly one BBR marker
\* line, one default_qdisc line and one tcp_congestion_control line
C4_SingleBlock ==
    rw_count >= 1 =>
        /\ MarkerCount(rw_content) = 1
        /\ QdiscCount(rw_content) = 1
        /\ CcCount(rw_content) = 1

\* C5: a second application of the managed-block rewrite leaves the file
\* exactly as the first application left it
C5_RewriteIdempotent ==
    rw_count >= 2 => rw_content = rw_prev

\* C5 witness: a content that the first application changed has been
\* rewritten twice
C5_Witness ==
    /\ rw_count = 2
    /\ rw_prev # rw_first
    /\ Len(rw_first) = MaxLines

\* a qdisc line and a congestion-control line that no marker line precedes
HasLegacyPair(content) ==
    \E i \in 1..(Len(content) - 1) :
        /\ content[i] = QdiscLine
        /\ content[i + 1] = CcLine
        /\ (i = 1 \/ ~IsBbrMarker(Strip(content[i - 1])))

\* C6: once enable_bbr has rewritten a file that held a legacy unmarked pair,
\* the file has one marker line and one tcp_congestion_control line
C6_LegacyRemoved ==
    (rw_block = "bbr" /\ rw_count >= 1 /\ HasLegacyPair(rw_first)) =>
        /\ MarkerCount(rw_content) = 1
        /\ CcCount(rw_content) = 1

\* C7: right after a successful restore_backup the original path holds the
\* content it had when that backup was taken, whatever was done to the file in
\* between; create_backup on a missing path returns None and creates no file
C7_BackupRoundTrip ==
    /\ cm_last = "restore" => files[cm_path] = cm_snaps[cm_ret]
    /\ cm_last = "create_missing" => (cm_ret = <<>> /\ backups = cm_before.backups)

\* C7 witness: a backup has been restored over a file that had been changed
\* since the backup was taken
C7_Witness ==
    /\ cm_last = "restore"
    /\ cm_before.files[cm_path] # files[cm_path]
    /\ files[cm_path] # << <<>> >>

\* C8: while the detected swap is a partition, the partition stays active and
\* increase_swap neither switches it off nor removes its device
C8_PartitionKept ==
    swap_type = "partition" =>
        /\ InSeq(PartitionDev, active)
        /\ <<"swapoff", PartitionDev>> \notin issued
        /\ <<"rm", PartitionDev>> \notin issued

\* C9: when increase_swap returns False, /etc/fstab has its pre-call content
\* and every swap file that existed before the call still exists
C9_FailureKeepsFiles ==
    (pc = "done" /\ result = "False") =>
        /\ fstab = pre.fstab
        /\ \A p \in Paths : pre.fsize[p] > 0 => fsize[p] > 0

\* C10: a call with a malformed size token changes neither the active swap
\* areas, nor the swap files, nor /etc/fstab
C10_MalformedRejected ==
    (calls > 0 /\ ~WellFormed(swap_size)) =>
        /\ active = pre.active
        /\ fsize = pre.fsize
        /\ fstab = pre.fstab

\* the number of lines of a file content that mention path p
EntryCount(content, p) ==
    Cardinality({i \in 1..Len(content) : InSeq(p, content[i])})

\* C11: when increase_swap of debian_init.py returns True, /etc/fstab holds
\* exactly one line for each active swap file, and after the resize of a swap
\* file that line is `<path> none swap sw 0 0`
C11_OneEntryPerSwapFile ==
    (variant = "debian_init" /\ pc = "done" /\ result = "True") =>
        \A p \in Paths :
            (InSeq(p, active) /\ Kind(p) = "file") =>
                /\ EntryCount(fstab, p) = 1
                /\ (swap_type = "file" /\ p = existing_file) =>
                       \E i \in 1..Len(fstab) : fstab[i] = SwapEntry(p, "sw")

\* C12: when the move of the backup onto sshd_config fails during the
\* rollback, config_sshd neither restarts the service nor logs that the
\* configuration was restored
C12_RestoreFailureIsFinal ==
    "restore_failed" \in t_log =>
        /\ "restarted_after_restore" \notin t_log
        /\ "reported_restored" \notin t_log

\* C13: the name create_backup gives a new backup is the name of no backup
\* that already exists, so no earlier backup is overwritten
C13_BackupNamesDistinct ==
    cm_last = "create" => cm_ret \notin DOMAIN cm_before.backups

\* C14: every step of config_sshd leaves each existing backup file in place
\* with its content
C14_BackupsPersist ==
    [][\A n \in DOMAIN backups : n \in DOMAIN backups' /\ backups'[n] = backups[n]]_vars

\* C15: the port config_sshd leaves its allocation loop with lies in
\* [60000, 65535] and no process listens on it; in particular it is not the
\* port an earlier run gave the SSH daemon, which still listens on it
C15_PortFree ==
    (t_pc = "backup" \/ (t_pc = "commands" /\ cmd_i = 1)) =>
        /\ port \in PortLow..PortHigh
        /\ port \notin bound
        /\ port # sshd_port

\* C15 witness: a second run has allocated its port while the daemon listens
\* on the port of the first run and another process listens on a third port
C15_Witness ==
    /\ t_runs = 2
    /\ t_pc = "backup"
    /\ sshd_port >= PortLow
    /\ bound # {}

\* C16: when the command loop of main() has ended, it has taken up every
\* argument of the command line
C16_EveryCommandProcessed ==
    m_pc \in {"returned", "exited"} => m_seen = 1..Len(argv)

\* the content sshd_config had when the running call took its backup: the
\* pre-call content, or the freshly installed file when there was none
ContentAtBackup ==
    IF t_pre[sshd_config] = Absent THEN DefaultSshdConfig ELSE t_pre[sshd_config]

C18_OldOrNew ==
    /\ "renamed" \notin aw_log => aw_target = aw_old
    /\ "renamed" \in aw_log => aw_target = aw_new
    /\ aw_reads \subseteq {aw_old, aw_new}

\* C18 witness: a call has failed with a part of the text in the temporary
\* file, and a reader has read the existing target meanwhile
C18_Witness ==
    /\ aw_pc = "done"
    /\ aw_ret = "False"
    /\ aw_tmp \notin {Absent, EmptyText, aw_new}
    /\ aw_old # Absent
    /\ aw_old \in aw_reads

\* C19: when enable_bbr of debian_init.py returns True on a host whose
\* sysctl.conf was empty, the file holds exactly one managed block with the
\* two directives
C19_EmptyFileGetsBlock ==
    (t_variant = "debian_init" /\ t_pc = "done" /\ t_result = "True"
       /\ t_pre[SysctlConf] = EmptyText) =>
        /\ MarkerCount(files[SysctlConf]) = 1
        /\ \E i \in 1..Len(files[SysctlConf]) : files[SysctlConf][i] = QdiscLine
        /\ \E i \in 1..Len(files[SysctlConf]) : files[SysctlConf][i] = CcLine
        /\ QdiscCount(files[SysctlConf]) = 1
        /\ CcCount(files[SysctlConf]) = 1

\* C20: config_sshd restarts the SSH daemon on an edited sshd_config only
\* after `sshd -t` has succeeded on it, in the main path and in the except
\* handler alike
C20_RestartAfterSyntaxCheck ==
    /\ "restarted" \in t_log => "sshd_t_ok" \in t_log
    /\ ({"wrote", "restore_failed", "restarted_after_restore"} \subseteq t_log) =>
           "sshd_t_ok" \in t_log

\* the number of lines of a file content that are exactly `line`
LineCount(content, line) ==
    Cardinality({i \in 1..Len(content) : content[i] = line})

\* the line the echo command of config_sshd appends in script v
AppendedLine(v) ==
    IF v = "install_alpine" THEN <<"KbdInteractiveAuthentication no ">>
    ELSE <<"AllowUsers root">>

\* C21: whenever config_sshd has returned True, sshd_config holds exactly one
\* `AllowUsers root` line (in install_alpine.py: exactly one
\* `KbdInteractiveAuthentication no` line), however many runs came before
C21_OneAllowUsersLine ==
    (t_pc = "done" /\ t_result = "True") =>
        LineCount(files[sshd_config], AppendedLine(t_variant)) = 1

\* the marker line of the block config_shell writes in the running script
ShellMarker ==
    IF aw_variant = "install_alpine" THEN AlpineConfigMarker ELSE ConfigMarker

\* the rc file holds the auto-configured block: its marker line is there
HasBlock(content) ==
    content # Absent /\ LineCount(content, <<ShellMarker>>) >= 1

\* C22: when config_shell has returned True, the rc file, if there is one,
\* holds exactly one marker line and one copy of each export and alias line,
\* and a run that found the block in the file has left the file as it was
C22_OneShellBlock ==
    (aw_pc = "done" /\ aw_ret = "True" /\ aw_target # Absent) =>
        /\ LineCount(aw_target, <<ShellMarker>>) = 1
        /\ LineCount(aw_target, <<"export HISTSIZE=10000">>) = 1
        /\ LineCount(aw_target, <<"alias ll=\"ls -lh --color=auto\"">>) = 1
        /\ HasBlock(aw_old) => aw_target = aw_old

\* the content is what the rewrite of enable_bbr would produce from it: the
\* cleaned content followed by the canonical block is the content itself
IsCanonicalBbr(content) == content # Absent /\ RewriteBbr(content) = content

\* C23: a call of enable_bbr of debian_init.py that finds sysctl.conf already
\* equal to its cleaned content plus the canonical block neither truncates
\* nor writes the file
C23_NoWriteWhenCanonical ==
    (t_variant = "debian_init" /\ t_pc # "idle" /\ IsCanonicalBbr(t_pre[SysctlConf])) =>
        /\ "truncated" \notin t_log
        /\ "wrote" \notin t_log

\* s is t with some of its elements left out
RECURSIVE IsSubsequence(_, _)
IsSubsequence(s, t) ==
    IF s = <<>> THEN TRUE
    ELSE IF t = <<>> THEN FALSE
    ELSE IF Head(s) = Head(t) THEN IsSubsequence(Tail(s), Tail(t))
    ELSE IsSubsequence(s, Tail(t))

\* the line opens a managed block of the kind `block`: it starts with the marker
OpensBlock(line, block) ==
    /\ Strip(line) # <<>>
    /\ Head(Strip(line)) \in (IF block = "bbr" THEN {BbrMarker, BbrMarkerZh}
                              ELSE {IpMarker, IpMarkerZh})

\* the line is a directive line of a managed block of the kind `block`
InBlock(line, block) ==
    IF block = "bbr" THEN IsBbrDirective(Strip(line))
    ELSE \/ StartsWith(Strip(line), PrecedenceKey)
         \/ StartsWith(Strip(line), LabelKey)
         \/ line \in {priority_config("ipv4")[2], priority_config("ipv6")[2]}

\* the lines of a file that belong to no managed block: all but the marker
\* lines and the directive lines that immediately follow a marker line
RECURSIVE OtherLines(_, _, _)
OtherLines(lines, block, in_block) ==
    IF lines = <<>> THEN <<>>
    ELSE IF OpensBlock(Head(lines), block) THEN OtherLines(Tail(lines), block, TRUE)
    ELSE IF in_block /\ InBlock(Head(lines), block)
           THEN OtherLines(Tail(lines), block, TRUE)
    ELSE <<Head(lines)>> \o OtherLines(Tail(lines), block, FALSE)

\* C24: after a managed-block rewrite every line of the previous content that
\* is neither a marker line nor a directive line right after one is in the
\* rewritten file, unchanged and in the same order
C24_OtherLinesKept ==
    rw_count >= 1 => IsSubsequence(OtherLines(rw_prev, rw_block, FALSE), rw_content)

\* the swap area `swapon --show={existing_file}` asks about
VerifiedArea == existing_file

\* the swap area the call has created or resized
ChangedArea == IF swap_type = "file" THEN existing_file ELSE swap_file

\* C25: increase_swap of debian_init.py and install_debian.py reports success
\* only in the step that queries the active swap status, and that query is
\* about the swap area the call has created or resized
C25_VerifiedBeforeSuccess ==
    [][(variant # "install_alpine" /\ result # "True" /\ result' = "True") =>
          (pc = "verify" /\ VerifiedArea = ChangedArea)]_vars

\* the ports a probe of the running script reports as in use
BusyPorts == bound \cup {sshd_port}

\* the ports the loop of the running script can draw
Draws == PortDraws \cap PortRange(t_variant)

\* C26: an iteration of the port loop of config_sshd leaves the loop exactly
\* when the port it drew is free, and goes to no error handler; the loop is
\* left eventually whenever some port of the range is free
C26_PortLoopTerminates ==
    /\ [][t_pc = "port" => /\ t_pc' \in {"port", "backup", "commands"}
                           /\ (t_pc' # "port") <=> (port' \notin BusyPorts)]_vars
    /\ (t_pc = "port" /\ Draws \ BusyPorts # {}) ~> (t_pc # "port")

\* C26 witness: the loop runs on a host where every port it can draw is in use
C26_Witness ==
    /\ t_pc = "port"
    /\ port # 0
    /\ Draws \subseteq BusyPorts

\* the content enable_bbr starts its rewrite from: the file it found, or the
\* header it wrote into the file it had to create
BbrOldContent ==
    IF t_pre[SysctlConf] = Absent THEN SysctlHeader ELSE t_pre[SysctlConf]

\* C27: while enable_bbr of debian_init.py runs, sysctl.conf has at every
\* moment either the content the call started from or the complete rewritten
\* content, never a truncated or partly written one
C27_TargetNeverTruncated ==
    (t_variant = "debian_init" /\ t_pc # "idle") =>
        files[SysctlConf] \in {t_pre[SysctlConf], BbrOldContent, RewriteBbr(BbrOldContent)}

\* C28: a call of restore_backup that directly follows a successful restore
\* of the same backup, and in which `mv` does not fail, succeeds too and
\* leaves the original path with the content the first restore gave it
C28_RestoreTwice ==
    [][(cm_last = "restore" /\ cm_ret' = cm_ret /\ cm_ops' = cm_ops + 1
          /\ cm_last' \in {"restore", "restore_missing"}) =>
          (cm_last' = "restore" /\ files'[cm_path'] = files[cm_path'])]_vars

\* C29: whenever config_sshd has returned True, the port it reported, the one
\* it drew last, is the port of the active Port directive of sshd_config
C29_ReportedPortIsActive ==
    (t_pc = "done" /\ t_result = "True" /\ "wrote" \in t_log) =>
        ListenPort(files[sshd_config]) = port

\* C30: a call of increase_swap of debian_init.py or install_debian.py that
\* has ended has returned True or False; no exception has left the function
C30_NoExceptionEscapes ==
    (variant # "install_alpine" /\ pc = "done") => result \in {"True", "False"}

\* ------------------------------------------------------------------------
\* Specifications
\* ------------------------------------------------------------------------
InitSwap == SwapInit /\ RwIdle /\ TxnIdle /\ CmIdle /\ MainIdle /\ AwIdle /\ RtIdle

SpecSwap == InitSwap /\ [][SwapNext]_vars

InitRewrite == RwInit /\ SwapIdle /\ TxnIdle /\ CmIdle /\ MainIdle /\ AwIdle /\ RtIdle

SpecRewrite == InitRewrite /\ [][RwNext]_vars

InitEdits == EditInit /\ SwapIdle /\ TxnIdle /\ CmIdle /\ MainIdle /\ AwIdle /\ RtIdle

SpecEdits == InitEdits /\ [][EditNext]_vars

InitSshd == SshdInit /\ SwapIdle /\ RwIdle /\ CmIdle /\ MainIdle /\ AwIdle /\ RtIdle

SpecSshd == InitSshd /\ [][SshdNext]_vars

\* the steps of config_sshd on a host whose clock stands still (the clock
\* only names the backup files)
SshdFairNext ==
    \/ ConfigSshdStart
    \/ SshdInstall
    \/ SshdDrawPort
    \/ SshdBackup
    \/ SshdCommand
    \/ SshdKeygen
    \/ SshdPubkey
    \/ SshdTest
    \/ SshdRestart
    \/ SshdIsActive
    \/ SshdExceptCalledProcessError
    \/ SshdExceptException
    \/ TxnReturn

\* config_sshd with every step taken eventually and random.randint fair: a
\* value that can be drawn again and again is drawn eventually
SpecSshdFair ==
    /\ InitSshd
    /\ [][SshdFairNext]_vars
    /\ WF_vars(SshdFairNext)
    /\ \A p \in PortDraws : SF_vars(SshdDrawPort /\ port' = p)

InitBackup == CmInit /\ SwapIdle /\ RwIdle /\ MainIdle /\ AwIdle /\ RtIdle

SpecBackup == InitBackup /\ [][CmNext]_vars

InitMain == MainInit /\ SwapIdle /\ RwIdle /\ TxnIdle /\ CmIdle /\ AwIdle /\ RtIdle

SpecMain == InitMain /\ [][MainNext]_vars

InitAtomic == AwInit /\ SwapIdle /\ RwIdle /\ TxnIdle /\ CmIdle /\ MainIdle /\ RtIdle

SpecAtomic == InitAtomic /\ [][AwNext]_vars

InitBbr == BbrInit /\ SwapIdle /\ RwIdle /\ CmIdle /\ MainIdle /\ AwIdle

SpecBbr == InitBbr /\ [][BbrNext]_vars

InitShell == ShellInit /\ SwapIdle /\ RwIdle /\ TxnIdle /\ CmIdle /\ MainIdle /\ RtIdle

SpecShell == InitShell /\ [][ShellNext]_vars

====
